---- MODULE Spec2Model ----
(***************************************************************************)
(* Driver-route matching system (Enzo-cam/rumbo-ai).                        *)
(*                                                                         *)
(*   SpecMatch   src/match_drivers_routes.py: main() from the computed      *)
(*               compatibility matrix on: solve_matching_problem,           *)
(*               create_assignment_dataframe, the two output files.         *)
(*   SpecAssign  the same main() from the loaded rows on, the matrix        *)
(*               computed by calculate_compatibility_matrix.                *)
(*   SpecAssemble  create_assignment_dataframe on any list of pairs.        *)
(*   SpecScores  src/calculate_scores.py: main().                           *)
(*   SpecPipeline  src/run_pipeline.py: main().                             *)
(*   SpecDriver  the kilometre-balanced driver score, as computed by        *)
(*               calculate_scores.calculate_driver_scores and by            *)
(*               generate_driver_scores_json.calculate_adjusted_scores.     *)
(*   SpecRoute   calculate_scores.calculate_route_scores.                   *)
(*                                                                         *)
(* Numbers.  Floating-point values are modelled in fixed point: one tick   *)
(* is 1/10000.  A float that may be NaN is a record [nan, v].              *)
(***************************************************************************)
EXTENDS Integers, Sequences, FiniteSets, TLC

VARIABLES
    \* ---- match_drivers_routes.py
    n_drivers,              \* len(drivers_df)
    n_routes,               \* len(routes_df)
    compatibility_matrix,   \* [<<i, j>> |-> weight], i in 0..D-1, j in 0..R-1
    mpc,                    \* position of main()
    assignments,            \* what solve_matching_problem returned
    assignment_df,          \* rows of create_assignment_dataframe
    written,                \* output files written by this run of main()
    raised,                 \* exception raised by this run ("none": none)
    prev,                   \* what the previous run's solve returned
    runs,                   \* runs of main() on this input so far
    match_drivers_df,       \* main()'s drivers_df: rows of scored_drivers.csv
    match_routes_df,        \* main()'s routes_df: rows of scored_routes.csv
    report,                 \* what generate_matching_report returned
    \* ---- driver scores
    drivers_df,             \* the fleet: one record per driver
    drivers_scored,         \* calculate_driver_scores(drivers_df), <<>> before
    df_adjusted,            \* calculate_adjusted_scores(drivers_df), <<>> before
    \* ---- route scores
    routes_df,              \* the routes: one record per route
    routes_scored,          \* calculate_route_scores(routes_df), <<>> before
    \* ---- calculate_scores.py, main()
    spc,                    \* position of main()
    absent,                 \* columns the two input files do not have
    score_written,          \* files written by this run of main()
    score_report,           \* <<the scoring report>>, <<>> before
    score_raised,           \* exception raised by this run ("none": none)
    \* ---- run_pipeline.py, main()
    args,                   \* the parsed command line
    ppc,                    \* position of main()
    steps_completed,
    total_steps,
    commands,               \* the commands handed to run_command, in order
    results,                \* how each of them ended
    pipeline_log,           \* the messages logged by main()
    exit_status,            \* "running", or the exit status: "0" or "1"
    \* ---- process_features.py, calculate_efficiency_score
    driver_data,            \* the driver's row of averaged features
    efficiency_score,       \* <<the value returned>>, <<>> before
    \* ---- extract_scania_data.py, main()
    xargs,                  \* the parsed command line
    xpc,                    \* position of main()
    env_token,              \* SCANIA_API_TOKEN in the environment
    token_read,             \* os.getenv('SCANIA_API_TOKEN') was called
    session,                \* "none", "open" or "closed"
    request_sent,           \* session.get was called
    pending,                \* exception in flight in the try block
    xwritten,               \* the files written, in order
    xraised,                \* exception that ended the run ("none": none)
    xexit                   \* "running", or the exit status: "0" or "1"

matchVars == <<n_drivers, n_routes, compatibility_matrix, mpc, assignments,
               assignment_df, written, raised, prev, runs,
               match_drivers_df, match_routes_df, report>>
driverVars == <<drivers_df, drivers_scored, df_adjusted>>
routeVars == <<routes_df, routes_scored>>

scoreVars == <<spc, absent, score_written, score_report, score_raised>>
pipeVars == <<args, ppc, steps_completed, total_steps, commands, results,
              pipeline_log, exit_status>>

effVars == <<driver_data, efficiency_score>>
extractVars == <<xargs, xpc, env_token, token_read, session, request_sent,
                 pending, xwritten, xraised, xexit>>
restVars == <<effVars, extractVars>>

\* The variables of the components other than match_drivers_routes.py.
notMatchVars == <<driverVars, routeVars, scoreVars, pipeVars, restVars>>

vars == <<matchVars, driverVars, routeVars, scoreVars, pipeVars, restVars>>

\* The variables of a component that is not running.
IdleMatch ==
    /\ n_drivers = 0 /\ n_routes = 0 /\ compatibility_matrix = <<>>
    /\ mpc = "idle" /\ assignments = [none |-> TRUE, list |-> <<>>]
    /\ assignment_df = <<>> /\ written = {} /\ raised = "none"
    /\ prev = [none |-> TRUE, list |-> <<>>] /\ runs = 0
    /\ match_drivers_df = <<>> /\ match_routes_df = <<>>
    /\ report = <<>>
IdleDriver == drivers_df = <<>> /\ drivers_scored = <<>> /\ df_adjusted = <<>>
IdleRoute == routes_df = <<>> /\ routes_scored = <<>>
IdleScore ==
    /\ spc = "idle" /\ absent = {} /\ score_written = {}
    /\ score_report = <<>>
    /\ score_raised = "none"
IdleEff == driver_data = <<>> /\ efficiency_score = <<>>
IdleExtract ==
    /\ xargs = <<>> /\ xpc = "idle" /\ env_token = "None"
    /\ token_read = FALSE /\ session = "none" /\ request_sent = FALSE
    /\ pending = "none" /\ xwritten = <<>> /\ xraised = "none"
    /\ xexit = "running"
IdleRest == IdleEff /\ IdleExtract
IdlePipe ==
    /\ args = <<>> /\ ppc = "idle" /\ steps_completed = 0 /\ total_steps = 0
    /\ commands = <<>> /\ results = <<>> /\ pipeline_log = <<>>
    /\ exit_status = "running"

-----------------------------------------------------------------------------
(* Bounds *)

MaxD == 4          \* drivers
MaxR == 3          \* routes
MaxCells == 6      \* cells of the weight matrix
MaxRuns == 2       \* runs of main() on the same input

\* Weight values: negative, zero and positive.
Weights == {-1, 0, 2}

Shapes == {s \in (1..MaxD) \X (1..MaxR) : s[1] * s[2] <= MaxCells}

\* The shapes with no driver or no route, and all of them.
EmptyShapes == {s \in (0..MaxD) \X (0..MaxR) : s[1] = 0 \/ s[2] = 0}
AllShapes == Shapes \cup EmptyShapes

MaxPairs == 2      \* pairs in a list handed to create_assignment_dataframe

-----------------------------------------------------------------------------
(* Helpers *)

RECURSIVE SumOver(_, _)
SumOver(S, f) ==
    IF S = {} THEN 0
    ELSE LET e == CHOOSE e \in S : TRUE
         IN  f[e] + SumOver(S \ {e}, f)

Cells(D, R) == (0..(D - 1)) \X (0..(R - 1))

-----------------------------------------------------------------------------
(* solve_matching_problem: the linear program                               *)

\* x[i, j] = LpVariable(cat='Binary') for every driver i and route j.
DecisionVariables(D, R) == [Cells(D, R) -> {0, 1}]

\* lpSum([compatibility_matrix[i, j] * x[i, j] ...])
Objective(W, x, D, R) ==
    SumOver(Cells(D, R), [c \in Cells(D, R) |-> W[c] * x[c]])

RouteAssignedRelaxed(x, D, j) ==
    SumOver(0..(D - 1), [i \in 0..(D - 1) |-> x[<<i, j>>]]) <= 1

\* Constraint 1: lpSum([x[i, j] for i]) == 1
RouteAssigned(x, D, j) ==
    SumOver(0..(D - 1), [i \in 0..(D - 1) |-> x[<<i, j>>]]) = 1

DriverUnlimited(x, R, i) == TRUE

\* Constraint 2: lpSum([x[i, j] for j]) <= 1
DriverMaxOne(x, R, i) ==
    SumOver(0..(R - 1), [j \in 0..(R - 1) |-> x[<<i, j>>]]) <= 1

Feasible(D, R) ==
    {x \in DecisionVariables(D, R) :
        /\ \A j \in 0..(R - 1) : RouteAssigned(x, D, j)
        /\ \A i \in 0..(D - 1) : DriverMaxOne(x, R, i)}

\* The feasible region depends on the shape only.
FeasibleTable == [s \in AllShapes |-> Feasible(s[1], s[2])]

LpMinimizeSense(a, b) == a <= b

\* LpProblem(..., LpMaximize): objective value a is at least as good as b.
LpMaximizeSense(a, b) == a >= b

AnyFeasibleSolution(W, D, R) == FeasibleTable[<<D, R>>]

\* prob.solve(PULP_CBC_CMD(msg=0)) with status Optimal: the variable values
\* are one optimal vertex; which one, among several, is the solver's choice.
OptimalSolutions(W, D, R) ==
    LET F == FeasibleTable[<<D, R>>]
    IN  {x \in F : \A y \in F :
            LpMaximizeSense(Objective(W, x, D, R), Objective(W, y, D, R))}

\* LpStatus[prob.status]
Status(D, R) ==
    IF FeasibleTable[<<D, R>>] = {} THEN "Infeasible" ELSE "Optimal"

\* The variable values after prob.solve(): an optimal solution, or, when
\* there is none, whatever the solver left in the variables.
VarValues(W, D, R) ==
    IF Status(D, R) = "Optimal" THEN OptimalSolutions(W, D, R)
    ELSE DecisionVariables(D, R)

NeverReturnsNone(status) == FALSE

\* if status != 'Optimal': return None
StatusNotOptimal(status) == status # "Optimal"

\* The extraction loop: for i, for j, if x[i, j].varValue == 1: append.
RECURSIVE ExtractFrom(_, _, _, _, _)
ExtractFrom(k, x, W, D, R) ==
    IF k >= D * R THEN <<>>
    ELSE LET i == k \div R
             j == k % R
             rest == ExtractFrom(k + 1, x, W, D, R)
         IN  IF x[<<i, j>>] = 1
             THEN <<[driver_idx |-> i, route_idx |-> j,
                     compatibility |-> W[<<i, j>>]]>> \o rest
             ELSE rest

ExtractSolution(x, W, D, R) == ExtractFrom(0, x, W, D, R)

MatrixNegated(W) == [c \in DOMAIN W |-> 0 - W[c]]

\* The matrix when solve_matching_problem returns: its cells are read into
\* the objective and into the result, and no statement assigns to them.
MatrixAfterSolve(W) == W

None == [none |-> TRUE, list |-> <<>>]
Returned(l) == [none |-> FALSE, list |-> l]

-----------------------------------------------------------------------------
(* Floating-point values in fixed point                                    *)

\* One score point, and the points 100 and 10, in ticks of 1/10000.
Tick100 == 1000000
Tick10 == 100000

NaN == [nan |-> TRUE, v |-> 0]
Num(t) == [nan |-> FALSE, v |-> t]

\* np.clip / Series.clip: NaN stays NaN.
Clip(x, lo, hi) ==
    IF x.nan THEN NaN
    ELSE Num(IF x.v < lo THEN lo ELSE IF x.v > hi THEN hi ELSE x.v)

\* The quotient num / den (den > 0) rounded to the nearest integer, halves
\* to the even one.
RoundDiv(num, den) ==
    LET q == num \div den
        r == num % den
    IN  IF 2 * r < den THEN q
        ELSE IF 2 * r > den THEN q + 1
        ELSE IF q % 2 = 0 THEN q ELSE q + 1

\* .round(2): to the nearest 1/100, that is to a multiple of 100 ticks.
Round2(x) == IF x.nan THEN NaN ELSE Num(100 * RoundDiv(x.v, 100))

Add(x, y) == IF x.nan \/ y.nan THEN NaN ELSE Num(x.v + y.v)

\* The integer square root of v >= 0, between lo and hi.
RECURSIVE ISqrtIn(_, _, _)
ISqrtIn(lo, hi, v) ==
    IF lo >= hi THEN lo
    ELSE LET mid == (lo + hi + 1) \div 2
         IN  IF mid * mid <= v THEN ISqrtIn(mid, hi, v)
             ELSE ISqrtIn(lo, mid - 1, v)

-----------------------------------------------------------------------------
(* Driver scores                                                           *)

MaxDrivers == 6    \* drivers of a fleet

\* Sub-scores <<safety, efficiency, compliance>> in 1/100 of a point.
DriverProfiles == {<<0, 0, 0>>, <<7055, 5533, 9001>>, <<10000, 10000, 10000>>}

\* Driven distances, km.
Kms == {1, 2, 4}

AlphaHundredths == 15

\* 0.4 * safety + 0.35 * efficiency + 0.25 * compliance, in ticks.
WeightedDriverScore(d) ==
    Num(40 * d.safety_score + 35 * d.efficiency_score + 25 * d.compliance_score)

\* process_features.aggregate_driver_features: driver_score_base.
DriverScoreBase(d) == Round2(WeightedDriverScore(d))

DriverRecord(profile, km) ==
    LET d == [safety_score |-> profile[1], efficiency_score |-> profile[2],
              compliance_score |-> profile[3], driven_km |-> km]
    IN  [safety_score |-> d.safety_score,
         efficiency_score |-> d.efficiency_score,
         compliance_score |-> d.compliance_score,
         driven_km |-> km,
         driver_score_base |-> DriverScoreBase(d)]

DriverRecords == {DriverRecord(p, km) : p \in DriverProfiles, km \in Kms}

\* A listing order of the records: the scores are computed row by row from
\* the mean and the standard deviation, which do not depend on the order of
\* the rows, so fleets are listed in this order.
RecordKey(d) == d.driven_km * 100000 + d.safety_score

Fleets ==
    UNION {{f \in [1..n -> DriverRecords] :
                \A k \in 1..(n - 1) : RecordKey(f[k]) <= RecordKey(f[k + 1])} :
           n \in 1..MaxDrivers}

KmSum(df) == SumOver(1..Len(df), [k \in 1..Len(df) |-> df[k].driven_km])

\* n * (mean - driven_km[i]): km_balance times the number of drivers.
Deviation(df, i) == KmSum(df) - Len(df) * df[i].driven_km

\* n^2 * (n - 1) * variance: the sum of the squared deviations.
SumSquares(df) ==
    SumOver(1..Len(df), [k \in 1..Len(df) |-> Deviation(df, k) * Deviation(df, k)])

\* km_balance = mean - driven_km, to the nearest 1/100.
KmBalance(df, i) == Num(100 * RoundDiv(100 * Deviation(df, i), Len(df)))

\* (km_balance / std) * 5 with Series.std() (ddof = 1), to 1/100, cut at the
\* magnitude 10 it is clipped to next.  One driver: std is NaN.  All
\* distances equal: std is 0 and every km_balance is 0, so the quotient is
\* 0 / 0 = NaN.
\*   (5 * km_balance / std)^2 = 25 * dev^2 * (n - 1) / SumSquares
ScaledQuotient(df, i) ==
    LET n == Len(df)
        dev == Deviation(df, i)
        q == SumSquares(df)
        sign == IF dev < 0 THEN -1 ELSE 1
    IN  IF n = 1 \/ q = 0 THEN NaN
        ELSE IF 25 * dev * dev * (n - 1) >= 100 * q THEN Num(sign * 2 * Tick10)
        ELSE Num(sign * 100 *
                 ISqrtIn(0, 1000, (25 * dev * dev * (n - 1) * 10000) \div q))

\* ALPHA * km_balance_scaled
TimesAlpha(x) == IF x.nan THEN NaN ELSE Num((AlphaHundredths * x.v) \div 100)

\* calculate_scores.calculate_driver_scores, one row.
ScoredDriver(df, i) ==
    LET d == df[i]
        driver_score_final == WeightedDriverScore(d)
        km_balance_scaled == Clip(ScaledQuotient(df, i), -Tick10, Tick10)
        driver_score_adjusted ==
            Clip(Add(driver_score_final, TimesAlpha(km_balance_scaled)),
                 0, Tick100)
    IN  [driven_km |-> d.driven_km,
         driver_score_final |-> Round2(driver_score_final),
         km_balance |-> KmBalance(df, i),
         km_balance_scaled |-> Round2(km_balance_scaled),
         driver_score_adjusted |-> Round2(driver_score_adjusted)]

\* std_km > 0 (False for NaN)
StdPositive(df) == Len(df) >= 2 /\ SumSquares(df) > 0

\* generate_driver_scores_json.calculate_adjusted_scores, one row.
AdjustedDriver(df, i) ==
    LET d == df[i]
        km_balance_scaled ==
            IF StdPositive(df)
            THEN Clip(ScaledQuotient(df, i), -Tick10, Tick10)
            ELSE Num(0)
        driver_score_adjusted ==
            Round2(Clip(Add(d.driver_score_base, TimesAlpha(km_balance_scaled)),
                        0, Tick100))
    IN  [driven_km |-> d.driven_km,
         driver_score_base |-> d.driver_score_base,
         km_balance |-> KmBalance(df, i),
         km_balance_scaled |-> km_balance_scaled,
         driver_score_adjusted |-> driver_score_adjusted]

InitDriver ==
    /\ drivers_df \in Fleets
    /\ drivers_scored = <<>>
    /\ df_adjusted = <<>>
    /\ IdleMatch /\ IdleRoute /\ IdleScore /\ IdlePipe /\ IdleRest

CalculateDriverScores ==
    /\ drivers_df # <<>>
    /\ drivers_scored = <<>>
    /\ drivers_scored' = [i \in 1..Len(drivers_df) |-> ScoredDriver(drivers_df, i)]
    /\ UNCHANGED <<drivers_df, df_adjusted, matchVars, routeVars, scoreVars,
                   pipeVars, restVars>>

CalculateAdjustedScores ==
    /\ drivers_df # <<>>
    /\ df_adjusted = <<>>
    /\ df_adjusted' = [i \in 1..Len(drivers_df) |-> AdjustedDriver(drivers_df, i)]
    /\ UNCHANGED <<drivers_df, drivers_scored, matchVars, routeVars, scoreVars,
                   pipeVars, restVars>>

NextDriver ==
    \/ CalculateDriverScores
    \/ CalculateAdjustedScores

SpecDriver == InitDriver /\ [][NextDriver]_vars

-----------------------------------------------------------------------------
(* Route scores                                                            *)

MaxRoutes == 2     \* routes of a route set

\* Sub-scores <<efficiency, operational complexity, peligrosity>> in 1/100
\* of a point; two profiles are outside [0, 100].
RouteProfiles ==
    {<<0, 0, 0>>, <<1, 0, 0>>, <<3999, 4000, 4000>>, <<4000, 4000, 4000>>,
     <<4001, 4000, 4000>>, <<5000, 7000, 2000>>, <<6000, 6000, 6000>>,
     <<8000, 8000, 8000>>, <<10000, 10000, 10000>>,
     <<12000, 12000, 12000>>, <<-1000, 0, 0>>}

RouteRecords ==
    {[efficiency_score |-> p[1], operational_complexity_score |-> p[2],
      peligrosity_score |-> p[3]] : p \in RouteProfiles}

\* 0.4 * efficiency + 0.3 * complexity + 0.3 * peligrosity, in ticks.
WeightedRouteScore(r) ==
    Num(40 * r.efficiency_score + 30 * r.operational_complexity_score
        + 30 * r.peligrosity_score)

RouteNoClip(x) == x

\* np.clip(route_score_final, 0, 100)
RouteClip(x) == Clip(x, 0, Tick100)

\* The local route_score_final that is rounded into the column and binned.
RouteScoreFinal(r) == RouteClip(WeightedRouteScore(r))

\* bins=[0, 40, 60, 80, 100], labels=[...]
Bins == <<0, 40 * 10000, 60 * 10000, 80 * 10000, 100 * 10000>>
Labels == <<"Easy", "Medium", "Hard", "Expert">>

CutLeftClosed(x) ==
    IF \E k \in 1..Len(Labels) : Bins[k] <= x.v /\ x.v < Bins[k + 1]
    THEN Labels[CHOOSE k \in 1..Len(Labels) : Bins[k] <= x.v /\ x.v < Bins[k + 1]]
    ELSE "NaN"

\* pd.cut with its defaults right=True, include_lowest=False: the bin k is
\* (Bins[k], Bins[k+1]]; a value in no bin gets NaN.
Cut(x) ==
    IF \E k \in 1..Len(Labels) : Bins[k] < x.v /\ x.v <= Bins[k + 1]
    THEN Labels[CHOOSE k \in 1..Len(Labels) : Bins[k] < x.v /\ x.v <= Bins[k + 1]]
    ELSE "NaN"

\* calculate_scores.calculate_route_scores, one row.
ScoredRoute(r) ==
    [efficiency_score |-> r.efficiency_score,
     operational_complexity_score |-> r.operational_complexity_score,
     peligrosity_score |-> r.peligrosity_score,
     route_score_final |-> Round2(RouteScoreFinal(r)),
     difficulty_tier |-> Cut(RouteScoreFinal(r))]

InitRoute ==
    /\ \E n \in 1..MaxRoutes : routes_df \in [1..n -> RouteRecords]
    /\ routes_scored = <<>>
    /\ IdleMatch /\ IdleDriver /\ IdleScore /\ IdlePipe /\ IdleRest

CalculateRouteScores ==
    /\ routes_df # <<>>
    /\ routes_scored = <<>>
    /\ routes_scored' = [k \in 1..Len(routes_df) |-> ScoredRoute(routes_df[k])]
    /\ UNCHANGED <<routes_df, matchVars, driverVars, scoreVars, pipeVars, restVars>>

NextRoute == CalculateRouteScores

SpecRoute == InitRoute /\ [][NextRoute]_vars

-----------------------------------------------------------------------------
(* Rows of scored_drivers.csv and scored_routes.csv, as main() loads them   *)

\* p score points in ticks.
Points(p) == p * (Tick100 \div 100)

\* <<driver_score_adjusted, km_balance in km, safety_score>>, the first and
\* the third in points.  Two of the drivers differ in km_balance only.
ProfileOrder ==
    <<<<70, -5000, 90>>, <<60, 0, 50>>, <<70, 5000, 90>>, <<5, 5000, 50>>>>
MatchDriverProfiles == {ProfileOrder[k] : k \in 1..Len(ProfileOrder)}

\* <<efficiency_score, operational_complexity_score, peligrosity_score>> of
\* the scored routes, in points: final scores 60, 70, 95 and 0, danger 70,
\* 85, 95 and 0.
RouteOrder == <<<<60, 50, 70>>, <<70, 55, 85>>, <<95, 95, 95>>, <<0, 0, 0>>>>
MatchRouteProfiles == {RouteOrder[k] : k \in 1..Len(RouteOrder)}

\* Row number i (from 1) of scored_drivers.csv: the columns main() reads.
\* driver_id is the fleet's identifier of the driver, one per row.
MatchDriver(i, p) ==
    [driver_id |-> i,
     driver_score_adjusted |-> Points(p[1]),
     km_balance |-> Points(p[2]),
     safety_score |-> Points(p[3])]

\* Row number j (from 1) of scored_routes.csv, as calculate_route_scores
\* wrote it: the final score in its two decimals, the tier of the score.
MatchRoute(j, p) ==
    LET scored == ScoredRoute([efficiency_score |-> 100 * p[1],
                               operational_complexity_score |-> 100 * p[2],
                               peligrosity_score |-> 100 * p[3]])
    IN  [route_id |-> j,
         route_score_final |-> scored.route_score_final.v,
         peligrosity_score |-> 100 * scored.peligrosity_score,
         difficulty_tier |-> scored.difficulty_tier]

\* The rows of a run whose matrix is given: row k has the k-th profile.
SomeDrivers(D) ==
    [i \in 1..D |->
        MatchDriver(i, ProfileOrder[((i - 1) % Len(ProfileOrder)) + 1])]
SomeRoutes(R) ==
    [j \in 1..R |->
        MatchRoute(j, RouteOrder[((j - 1) % Len(RouteOrder)) + 1])]

-----------------------------------------------------------------------------
(* calculate_compatibility_matrix                                           *)

Abs(x) == IF x < 0 THEN 0 - x ELSE x

\* score_compatibility = 100 - abs(driver_score_adjusted - route_score_final)
ScoreCompatibility(driver, route) ==
    Tick100 - Abs(driver.driver_score_adjusted - route.route_score_final)

SkillBonusStrict(driver, route) ==
    IF driver.driver_score_adjusted > route.route_score_final
    THEN Points(10) ELSE Points(-20)

\* skill_bonus = 10 if driver_score_adjusted >= route_score_final else -20
SkillBonus(driver, route) ==
    IF driver.driver_score_adjusted >= route.route_score_final
    THEN Points(10) ELSE Points(-20)

\* km_factor = -driver['km_balance'] / 1000
\* (exact in ticks: the km_balance values are multiples of 1000 ticks)
KmFactor(driver) == (0 - driver.km_balance) \div 1000

\* if route['peligrosity_score'] > 70: safety_bonus = safety_score * 0.2
SafetyBonus(driver, route) ==
    IF route.peligrosity_score > Points(70)
    THEN driver.safety_score \div 5 ELSE 0

\* compatibility[i, j] = score_compatibility + skill_bonus + km_factor
\*                       + safety_bonus
Compatibility(driver, route) ==
    ScoreCompatibility(driver, route) + SkillBonus(driver, route)
        + KmFactor(driver) + SafetyBonus(driver, route)

\* np.zeros((n_drivers, n_routes)) filled by the two iterrows() loops.
CompatibilityMatrix(drivers, routes) ==
    [c \in Cells(Len(drivers), Len(routes)) |->
        Compatibility(drivers[c[1] + 1], routes[c[2] + 1])]

EmptyReductionGivesNaN(size) == FALSE

\* compatibility.min() in the closing print: numpy raises ValueError for
\* the minimum of a zero-size array.
EmptyReductionRaises(size) == size = 0

-----------------------------------------------------------------------------
(* create_assignment_dataframe                                             *)

IlocWraps(df, idx) == [found |-> TRUE, row |-> df[(idx % Len(df)) + 1]]

\* df.iloc[idx] for idx >= 0: the row at that position, IndexError when
\* there is none.
Iloc(df, idx) ==
    IF idx < Len(df) THEN [found |-> TRUE, row |-> df[idx + 1]]
    ELSE [found |-> FALSE, row |-> df[1]]

\* The loop raises at the first pair whose driver or route is not there.
RaisesIndexError(l, drivers, routes) ==
    \E k \in 1..Len(l) :
        \/ ~Iloc(drivers, l[k].driver_idx).found
        \/ ~Iloc(routes, l[k].route_idx).found

\* compatibility_matrix[driver_idx, route_idx], read after both iloc calls
\* returned a row.
Cell(W, i, j) == IF <<i, j>> \in DOMAIN W THEN W[<<i, j>>] ELSE 0

\* One row of the frame.  driver_idx and route_idx are not columns: they
\* name the pair the row was built from.  The columns driver_efficiency
\* and route_distance_km are two more copies of fields of the records.
Row(a, W, drivers, routes) ==
    LET driver == Iloc(drivers, a.driver_idx).row
        route == Iloc(routes, a.route_idx).row
    IN  [driver_idx |-> a.driver_idx, route_idx |-> a.route_idx,
         driver_id |-> driver.driver_id,
         route_id |-> route.route_id,
         driver_score |-> driver.driver_score_adjusted,
         route_score |-> route.route_score_final,
         match_score |-> Cell(W, a.driver_idx, a.route_idx),
         score_difference |->
             driver.driver_score_adjusted - route.route_score_final,
         km_balance |-> driver.km_balance,
         driver_safety |-> driver.safety_score,
         route_difficulty |-> route.difficulty_tier,
         route_peligrosity |-> route.peligrosity_score]

\* sort_values('match_score', ascending=False)
SortedDescending(df) ==
    \A k \in 1..(Len(df) - 1) : df[k].match_score >= df[k + 1].match_score

UnsortedFrames(rows) ==
    {[k \in 1..Len(rows) |-> rows[p[k]]] : p \in Permutations(1..Len(rows))}

\* The sorted frames of the rows: sort_values' default kind is quicksort,
\* which fixes no order among rows of equal match_score.
SortedFrames(rows) ==
    {df \in {[k \in 1..Len(rows) |-> rows[p[k]]] :
                p \in Permutations(1..Len(rows))} : SortedDescending(df)}

-----------------------------------------------------------------------------
(* generate_matching_report                                                *)

OverQualified(row) == row.score_difference > Points(10)
WellMatchedOpen(row) ==
    row.score_difference > Points(-10) /\ row.score_difference < Points(10)
WellMatched(row) ==
    row.score_difference >= Points(-10) /\ row.score_difference <= Points(10)
UnderQualified(row) == row.score_difference < Points(-10)

AssignedRouteIds(df, drivers) == {df[k].route_id : k \in 1..Len(df)}

\* assigned_driver_ids = set(assignment_df['driver_id'])
AssignedDriverIds(df, drivers) == {df[k].driver_id : k \in 1..Len(df)}

\* drivers_df[~drivers_df['driver_id'].isin(assigned_driver_ids)]
UnassignedDrivers(df, drivers) ==
    SelectSeq(drivers,
              LAMBDA d : d.driver_id \notin AssignedDriverIds(df, drivers))

\* The figures the report prints (the means, the percentages and the
\* ranges are printed from the same rows).
GenerateMatchingReport(df, drivers, routes) ==
    [total_drivers |-> Len(drivers),
     total_routes |-> Len(routes),
     successful_assignments |-> Len(df),
     unassigned_drivers |-> Len(drivers) - Len(df),
     over_qualified |->
        Cardinality({k \in 1..Len(df) : OverQualified(df[k])}),
     well_matched |->
        Cardinality({k \in 1..Len(df) : WellMatched(df[k])}),
     under_qualified |->
        Cardinality({k \in 1..Len(df) : UnderQualified(df[k])}),
     by_difficulty |->
        [tier \in {"Easy", "Medium", "Hard", "Expert"} |->
            Cardinality({k \in 1..Len(df) : df[k].route_difficulty = tier})],
     top_matches |-> SubSeq(df, 1, IF Len(df) < 10 THEN Len(df) ELSE 10),
     unassigned_ids |->
        {UnassignedDrivers(df, drivers)[k].driver_id :
            k \in 1..Len(UnassignedDrivers(df, drivers))},
     total_unassigned |-> Len(UnassignedDrivers(df, drivers))]

-----------------------------------------------------------------------------
(* main() of match_drivers_routes.py                                       *)

\* The other variables of a run of main() that has loaded its two files.
Loaded ==
    /\ assignments = None
    /\ assignment_df = <<>>
    /\ written = {}
    /\ raised = "none"
    /\ report = <<>>
    /\ prev = None
    /\ runs = 1
    /\ IdleDriver /\ IdleRoute /\ IdleScore /\ IdlePipe /\ IdleRest

\* main() after the scored files are loaded and the compatibility matrix
\* is computed: the solver is given a matrix of any weights.
InitMatch ==
    /\ \E s \in Shapes :
        /\ n_drivers = s[1]
        /\ n_routes = s[2]
        /\ match_drivers_df = SomeDrivers(s[1])
        /\ match_routes_df = SomeRoutes(s[2])
        /\ compatibility_matrix \in [Cells(s[1], s[2]) -> Weights]
    /\ mpc = "solve"
    /\ Loaded

\* main() after the scored files are loaded: any rows, none included.
InitAssign ==
    /\ \E s \in AllShapes :
        /\ n_drivers = s[1]
        /\ n_routes = s[2]
        /\ \E ds \in [1..s[1] -> MatchDriverProfiles] :
            match_drivers_df = [i \in 1..s[1] |-> MatchDriver(i, ds[i])]
        /\ \E rs \in [1..s[2] -> MatchRouteProfiles] :
            match_routes_df = [j \in 1..s[2] |-> MatchRoute(j, rs[j])]
    /\ compatibility_matrix = <<>>
    /\ mpc = "matrix"
    /\ Loaded

\* create_assignment_dataframe called with a list of pairs of any indexes
\* from 0 on, the first index past the rows included.
InitAssemble ==
    /\ \E s \in Shapes :
        /\ n_drivers = s[1]
        /\ n_routes = s[2]
        /\ match_drivers_df = SomeDrivers(s[1])
        /\ match_routes_df = SomeRoutes(s[2])
        /\ compatibility_matrix =
                CompatibilityMatrix(SomeDrivers(s[1]), SomeRoutes(s[2]))
        /\ \E n \in 0..MaxPairs :
            \E l \in [1..n -> (0..s[1]) \X (0..s[2])] :
                assignments = Returned(
                    [k \in 1..n |->
                        [driver_idx |-> l[k][1], route_idx |-> l[k][2],
                         compatibility |->
                            Cell(compatibility_matrix, l[k][1], l[k][2])]])
    /\ mpc = "solved"
    /\ assignment_df = <<>>
    /\ written = {}
    /\ raised = "none"
    /\ report = <<>>
    /\ prev = None
    /\ runs = 1
    /\ IdleDriver /\ IdleRoute /\ IdleScore /\ IdlePipe /\ IdleRest

\* compatibility_matrix = calculate_compatibility_matrix(drivers_df,
\*                                                       routes_df)
CalculateCompatibilityMatrix ==
    /\ mpc = "matrix"
    /\ IF EmptyReductionRaises(n_drivers * n_routes)
       THEN /\ raised' = "ValueError"
            /\ mpc' = "failed"
            /\ UNCHANGED compatibility_matrix
       ELSE /\ compatibility_matrix' =
                    CompatibilityMatrix(match_drivers_df, match_routes_df)
            /\ mpc' = "solve"
            /\ UNCHANGED raised
    /\ UNCHANGED <<n_drivers, n_routes, assignments, assignment_df, written,
                   prev, runs, match_drivers_df, match_routes_df, report>>
    /\ UNCHANGED notMatchVars

\* assignments = solve_matching_problem(drivers_df, routes_df, matrix)
SolveMatchingProblem ==
    /\ mpc = "solve"
    /\ IF StatusNotOptimal(Status(n_drivers, n_routes))
       THEN assignments' = None
       ELSE \E x \in VarValues(compatibility_matrix, n_drivers, n_routes) :
                assignments' = Returned(ExtractSolution(
                    x, compatibility_matrix, n_drivers, n_routes))
    /\ mpc' = "solved"
    /\ compatibility_matrix' = MatrixAfterSolve(compatibility_matrix)
    /\ UNCHANGED <<n_drivers, n_routes, assignment_df, written, raised, prev,
                   runs, match_drivers_df, match_routes_df, report>>
    /\ UNCHANGED notMatchVars

\* if assignments is None: print("ERROR: ..."); return
MainReturnsOnNone ==
    /\ mpc = "solved"
    /\ assignments.none
    /\ mpc' = "returned"
    /\ UNCHANGED <<n_drivers, n_routes, compatibility_matrix, assignments,
                   assignment_df, written, raised, prev, runs,
                   match_drivers_df, match_routes_df, report>>
    /\ UNCHANGED notMatchVars

\* assignment_df = create_assignment_dataframe(assignments, drivers_df,
\*                                             routes_df, matrix)
CreateAssignmentDataframe ==
    /\ mpc = "solved"
    /\ ~assignments.none
    /\ IF RaisesIndexError(assignments.list, match_drivers_df, match_routes_df)
       THEN /\ raised' = "IndexError"
            /\ mpc' = "failed"
            /\ UNCHANGED assignment_df
       ELSE /\ \E df \in SortedFrames(
                    [k \in 1..Len(assignments.list) |->
                        Row(assignments.list[k], compatibility_matrix,
                            match_drivers_df, match_routes_df)]) :
                    assignment_df' = df
            /\ mpc' = "assembled"
            /\ UNCHANGED raised
    /\ UNCHANGED <<n_drivers, n_routes, compatibility_matrix, assignments,
                   written, prev, runs, match_drivers_df, match_routes_df,
                   report>>
    /\ UNCHANGED notMatchVars

\* assignment_df.to_csv(OUTPUTS_DIR / "driver_route_assignment.csv")
SaveAssignments ==
    /\ mpc = "assembled"
    /\ written' = written \cup {"driver_route_assignment.csv"}
    /\ mpc' = "saved"
    /\ UNCHANGED <<n_drivers, n_routes, compatibility_matrix, assignments,
                   assignment_df, raised, prev, runs, match_drivers_df,
                   match_routes_df, report>>
    /\ UNCHANGED notMatchVars

\* report = generate_matching_report(...); f.write(report)
SaveReport ==
    /\ mpc = "saved"
    /\ report' = <<GenerateMatchingReport(assignment_df, match_drivers_df,
                                          match_routes_df)>>
    /\ written' = written \cup {"matching_report.txt"}
    /\ mpc' = "done"
    /\ UNCHANGED <<n_drivers, n_routes, compatibility_matrix, assignments,
                   assignment_df, raised, prev, runs, match_drivers_df,
                   match_routes_df>>
    /\ UNCHANGED notMatchVars

\* The script is run again on the same scored files.
RunAgain ==
    /\ mpc \in {"returned", "done"}
    /\ runs < MaxRuns
    /\ runs' = runs + 1
    /\ prev' = assignments
    /\ assignments' = None
    /\ assignment_df' = <<>>
    /\ written' = {}
    /\ report' = <<>>
    /\ mpc' = "solve"
    /\ UNCHANGED <<n_drivers, n_routes, compatibility_matrix, raised,
                   match_drivers_df, match_routes_df>>
    /\ UNCHANGED notMatchVars

NextMatch ==
    \/ SolveMatchingProblem
    \/ MainReturnsOnNone
    \/ CreateAssignmentDataframe
    \/ SaveAssignments
    \/ SaveReport
    \/ RunAgain

SpecMatch == InitMatch /\ [][NextMatch]_vars

NextAssign ==
    \/ CalculateCompatibilityMatrix
    \/ SolveMatchingProblem
    \/ MainReturnsOnNone
    \/ CreateAssignmentDataframe
    \/ SaveAssignments
    \/ SaveReport

SpecAssign == InitAssign /\ [][NextAssign]_vars

NextAssemble == CreateAssignmentDataframe

SpecAssemble == InitAssemble /\ [][NextAssemble]_vars

-----------------------------------------------------------------------------
(* main() of calculate_scores.py                                           *)

MaxRows == 2       \* rows of drivers_mock.csv, and of routes_mock.csv

\* Driver sub-scores of drivers_mock.csv in 1/100 of a point; the second
\* profile has a sub-score outside [0, 100].
MockDriverProfiles == {<<7055, 5533, 9001>>, <<12000, 0, 0>>}
MockKms == {1, 4}
MockDrivers == {DriverRecord(p, km) : p \in MockDriverProfiles, km \in MockKms}

\* Route sub-scores of routes_mock.csv; the last two are outside [0, 100].
MockRouteProfiles ==
    {<<5000, 7000, 2000>>, <<12000, 12000, 12000>>, <<-1000, 0, 0>>}
MockRoutes ==
    {[efficiency_score |-> p[1], operational_complexity_score |-> p[2],
      peligrosity_score |-> p[3]] : p \in MockRouteProfiles}

\* The columns calculate_driver_scores reads, those calculate_route_scores
\* reads, and those only generate_score_report reads, as <<file, column>>.
DriverColumns ==
    {<<"drivers", c>> : c \in {"safety_score", "efficiency_score",
                               "compliance_score", "driven_km"}}
RouteColumns ==
    {<<"routes", c>> : c \in {"efficiency_score",
                              "operational_complexity_score",
                              "peligrosity_score"}}
ReportColumns ==
    {<<"drivers", "driver_score_base">>, <<"routes", "route_id">>,
     <<"routes", "total_distance_km">>}

AbsentColumnIgnored(columns, missing) == FALSE

\* df['column'] raises KeyError when the frame has no such column.
KeyErrorIn(columns, missing) == columns \cap missing # {}

\* main() after the two files are loaded: up to MaxRows rows each, at most
\* one column absent.
InitScores ==
    /\ \E n \in 1..MaxRows : drivers_df \in [1..n -> MockDrivers]
    /\ \E n \in 1..MaxRows : routes_df \in [1..n -> MockRoutes]
    /\ \E missing \in SUBSET (DriverColumns \cup RouteColumns
                                \cup ReportColumns) :
        Cardinality(missing) <= 1 /\ absent = missing
    /\ drivers_scored = <<>>
    /\ df_adjusted = <<>>
    /\ routes_scored = <<>>
    /\ spc = "drivers"
    /\ score_written = {}
    /\ score_report = <<>>
    /\ score_raised = "none"
    /\ IdleMatch /\ IdlePipe /\ IdleRest

\* drivers_scored = calculate_driver_scores(drivers_df)
ScoreDrivers ==
    /\ spc = "drivers"
    /\ IF KeyErrorIn(DriverColumns, absent)
       THEN /\ score_raised' = "KeyError"
            /\ spc' = "failed"
            /\ UNCHANGED drivers_scored
       ELSE /\ drivers_scored' =
                [i \in 1..Len(drivers_df) |-> ScoredDriver(drivers_df, i)]
            /\ spc' = "routes"
            /\ UNCHANGED score_raised
    /\ UNCHANGED <<drivers_df, df_adjusted, routeVars, absent, score_written,
                   score_report, matchVars, pipeVars, restVars>>

\* routes_scored = calculate_route_scores(routes_df)
ScoreRoutes ==
    /\ spc = "routes"
    /\ IF KeyErrorIn(RouteColumns, absent)
       THEN /\ score_raised' = "KeyError"
            /\ spc' = "failed"
            /\ UNCHANGED routes_scored
       ELSE /\ routes_scored' =
                [j \in 1..Len(routes_df) |-> ScoredRoute(routes_df[j])]
            /\ spc' = "report"
            /\ UNCHANGED score_raised
    /\ UNCHANGED <<driverVars, routes_df, absent, score_written, score_report,
                   matchVars, pipeVars, restVars>>

\* generate_score_report, the route statistics: the number of routes and,
\* for each tier, the number of rows whose difficulty_tier equals it.
GenerateScoreReport(routes) ==
    [total_routes |-> Len(routes),
     difficulty |->
        [tier \in {"Easy", "Medium", "Hard", "Expert"} |->
            Cardinality({k \in 1..Len(routes) :
                            routes[k].difficulty_tier = tier})]]

\* The two to_csv calls, then generate_score_report and the write of the
\* report.
SaveScores ==
    /\ spc = "report"
    /\ IF KeyErrorIn(ReportColumns, absent)
       THEN /\ score_written' = {"scored_drivers.csv", "scored_routes.csv"}
            /\ score_raised' = "KeyError"
            /\ spc' = "failed"
            /\ UNCHANGED score_report
       ELSE /\ score_written' = {"scored_drivers.csv", "scored_routes.csv",
                                 "scoring_report.txt"}
            /\ score_report' = <<GenerateScoreReport(routes_scored)>>
            /\ spc' = "done"
            /\ UNCHANGED score_raised
    /\ UNCHANGED <<driverVars, routeVars, absent, matchVars, pipeVars, restVars>>

NextScores ==
    \/ ScoreDrivers
    \/ ScoreRoutes
    \/ SaveScores

SpecScores == InitScores /\ [][NextScores]_vars

-----------------------------------------------------------------------------
(* main() of run_pipeline.py                                               *)

\* The options main() reads, as typed on the command line, or "None" for
\* an option not given.
StartDates == {"None", "", "202510210000"}
EndDates == {"None", "202510310000"}
KClusters == {"None", "0", "4", "04"}
RawData == {"data/raw_driver_trips.json", "data/other.json"}

Arguments ==
    [skip_extraction : BOOLEAN, start_date : StartDates,
     end_date : EndDates, k_clusters : KClusters, raw_data : RawData]

\* How subprocess.run(command, check=True) ends: with the return code of
\* the child, or with OSError when the child cannot be started.
ReturnCodes == {0, 1, 2}
Endings ==
    {[raises |-> "none", returncode |-> c] : c \in ReturnCodes}
        \cup {[raises |-> "OSError", returncode |-> 0]}

IgnoresFailure(ending) == TRUE

\* run_command: True when the child returned 0, False on the
\* CalledProcessError of another return code.  OSError is not caught.
RunCommand(ending) == ending.returncode = 0

\* if args.start_date: a given, non-empty string.
Truthy(v) == v # "None" /\ v # ""

\* type=int, then if args.k_clusters: a given integer other than 0.
TruthyInt(v) == v # "None" /\ v # "0"

\* str(args.k_clusters) of the parsed integer.
StrOfInt(v) == IF v = "04" THEN "4" ELSE v

ExtractCommand(a) ==
    <<"python", "src/extract_scania_data.py">>
        \o (IF Truthy(a.start_date) THEN <<"--start-date", a.start_date>>
            ELSE <<>>)
        \o (IF Truthy(a.end_date) THEN <<"--end-date", a.end_date>>
            ELSE <<>>)
ProcessCommand(a) ==
    <<"python", "src/process_features.py", "--input", a.raw_data>>
TrainCommand(a) ==
    <<"python", "src/train_driver_clustering.py">>
        \o (IF TruthyInt(a.k_clusters) THEN <<"--k", StrOfInt(a.k_clusters)>>
            ELSE <<>>)
GenerateCommand(a) == <<"python", "src/generate_driver_scores_json.py">>

AlwaysFourSteps(a) == 4

\* total_steps = 4 if not args.skip_extraction else 3
TotalSteps(a) == IF ~a.skip_extraction THEN 4 ELSE 3

InitPipeline ==
    /\ args \in Arguments
    /\ ppc = "start"
    /\ steps_completed = 0
    /\ total_steps = 0
    /\ commands = <<>>
    /\ results = <<>>
    /\ pipeline_log = <<>>
    /\ exit_status = "running"
    /\ IdleMatch /\ IdleDriver /\ IdleRoute /\ IdleScore /\ IdleRest

\* steps_completed = 0; total_steps = 4 if not args.skip_extraction else 3
StartPipeline ==
    /\ ppc = "start"
    /\ steps_completed' = 0
    /\ total_steps' = TotalSteps(args)
    /\ ppc' = IF ~args.skip_extraction THEN "extract" ELSE "process"
    /\ UNCHANGED <<args, commands, results, pipeline_log, exit_status>>
    /\ UNCHANGED <<matchVars, driverVars, routeVars, scoreVars, restVars>>

\* logger.info / logger.error of main(): a text, or the progress count.
Message(text) == [text |-> text, completed |-> 0, total |-> 0]
Progress(n, total) == [text |-> "Progress", completed |-> n, total |-> total]

\* One step of main(): run_command(cmd, ...), then either the abort with
\* sys.exit(1) or the progress message.
Step(at, cmd, aborted, next) ==
    /\ ppc = at
    /\ \E ending \in Endings :
        /\ commands' = Append(commands, cmd)
        /\ results' = Append(results, ending)
        /\ IF ending.raises = "OSError"
           THEN /\ exit_status' = "1"
                /\ ppc' = "exited"
                /\ UNCHANGED <<steps_completed, pipeline_log>>
           ELSE IF ~RunCommand(ending)
           THEN /\ pipeline_log' = Append(pipeline_log, Message(aborted))
                /\ exit_status' = "1"
                /\ ppc' = "exited"
                /\ UNCHANGED steps_completed
           ELSE /\ steps_completed' = steps_completed + 1
                /\ pipeline_log' = Append(pipeline_log,
                        Progress(steps_completed + 1, total_steps))
                /\ ppc' = next
                /\ UNCHANGED exit_status
    /\ UNCHANGED <<args, total_steps>>
    /\ UNCHANGED <<matchVars, driverVars, routeVars, scoreVars, restVars>>

ExtractData ==
    Step("extract", ExtractCommand(args),
         "Pipeline aborted due to extraction failure", "process")

ProcessFeatures ==
    Step("process", ProcessCommand(args),
         "Pipeline aborted due to feature processing failure", "train")

TrainClustering ==
    Step("train", TrainCommand(args),
         "Pipeline aborted due to clustering failure", "generate")

GenerateDriverScores ==
    Step("generate", GenerateCommand(args),
         "Pipeline aborted due to JSON generation failure", "completed")

\* The closing messages; main() returns and the process ends with status 0.
PipelineCompleted ==
    /\ ppc = "completed"
    /\ pipeline_log' =
            Append(pipeline_log, Message("PIPELINE COMPLETED SUCCESSFULLY!"))
    /\ exit_status' = "0"
    /\ ppc' = "exited"
    /\ UNCHANGED <<args, steps_completed, total_steps, commands, results>>
    /\ UNCHANGED <<matchVars, driverVars, routeVars, scoreVars, restVars>>

NextPipeline ==
    \/ StartPipeline
    \/ ExtractData
    \/ ProcessFeatures
    \/ TrainClustering
    \/ GenerateDriverScores
    \/ PipelineCompleted

SpecPipeline == InitPipeline /\ [][NextPipeline]_vars

-----------------------------------------------------------------------------
(* Claims on the assignment solver (SpecMatch)                              *)

Solved == mpc # "solve"

\* One-to-one assignments covering every route, by enumeration.
Injections(D, R) ==
    {f \in [0..(R - 1) -> 0..(D - 1)] :
        \A a, b \in 0..(R - 1) : f[a] = f[b] => a = b}

AssignmentWeight(W, f, R) ==
    SumOver(0..(R - 1), [j \in 0..(R - 1) |-> W[<<f[j], j>>]])

BruteForceMaximum(W, D, R) ==
    LET ws == {AssignmentWeight(W, f, R) : f \in Injections(D, R)}
    IN  CHOOSE m \in ws : \A w \in ws : w <= m

TotalWeight(l) == SumOver(1..Len(l), [k \in 1..Len(l) |-> l[k].compatibility])

PairSet(l) == {<<l[k].driver_idx, l[k].route_idx>> : k \in 1..Len(l)}

UniqueOptimum ==
    Cardinality({f \in Injections(n_drivers, n_routes) :
        AssignmentWeight(compatibility_matrix, f, n_routes) =
            BruteForceMaximum(compatibility_matrix, n_drivers, n_routes)}) = 1

\* C1: a returned assignment list has exactly R entries, every route index
\* 0..R-1 is in exactly one entry and no driver index is in two entries,
\* whatever the signs of the weights.
C1_AssignmentIsOneToOne ==
    (Solved /\ ~assignments.none) =>
        LET l == assignments.list
        IN  /\ Len(l) = n_routes
            /\ \A j \in 0..(n_routes - 1) :
                 Cardinality({k \in 1..Len(l) : l[k].route_idx = j}) = 1
            /\ \A k1, k2 \in 1..Len(l) :
                 l[k1].driver_idx = l[k2].driver_idx => k1 = k2
            /\ \A k \in 1..Len(l) : l[k].driver_idx \in 0..(n_drivers - 1)

\* C1 witness: 3 drivers, 2 routes, solved, a negative weight among the pairs.
C1_Witness ==
    /\ mpc = "solved" /\ ~assignments.none
    /\ n_drivers = 3 /\ n_routes = 2
    /\ \E k \in 1..Len(assignments.list) : assignments.list[k].compatibility < 0

\* C2: the summed weight of the returned pairs is the maximum over all
\* one-to-one assignments that cover every route (brute-force enumeration).
C2_TotalWeightIsMaximum ==
    (Solved /\ ~assignments.none) =>
        TotalWeight(assignments.list) =
            BruteForceMaximum(compatibility_matrix, n_drivers, n_routes)

\* C2 witness: 3 x 2, solved, and some complete assignment weighs strictly less.
C2_Witness ==
    /\ mpc = "solved" /\ ~assignments.none
    /\ n_drivers = 3 /\ n_routes = 2
    /\ \E f \in Injections(n_drivers, n_routes) :
         AssignmentWeight(compatibility_matrix, f, n_routes)
            < TotalWeight(assignments.list)

\* C3 (as claimed): with fewer drivers than routes, solving fails with
\* InfeasibleAssignmentError.
C3_RaisesInfeasibleAssignmentError ==
    (Solved /\ n_drivers < n_routes) => raised = "InfeasibleAssignmentError"

\* C3 (amended): with fewer drivers than routes, solve_matching_problem
\* raises nothing and returns None; main() stops there: no assignment frame
\* and no output file, so no assignment covering a subset of the routes.
C3_InfeasibleReturnsNone ==
    (Solved /\ n_drivers < n_routes) =>
        /\ assignments.none
        /\ raised = "none"
        /\ mpc \in {"solved", "returned"}
        /\ assignment_df = <<>>
        /\ written = {}

\* C3 witness: 2 drivers, 3 routes, main() has returned after the solve.
C3_Witness ==
    mpc = "returned" /\ n_drivers = 2 /\ n_routes = 3

\* C4: all-or-nothing: the solver returns one pair per route or None, never
\* a shorter list; when it returns None main() writes neither output file,
\* and a file is written only from a complete assignment.
C4_AllOrNothing ==
    /\ Solved => (assignments.none \/ Len(assignments.list) = n_routes)
    /\ (Solved /\ assignments.none) => (written = {} /\ assignment_df = <<>>)
    /\ written # {} => (~assignments.none /\ Len(assignment_df) = n_routes)

\* C4 witness: the solver failed and main() returned with nothing written.
C4_Witness ==
    mpc = "returned" /\ assignments.none /\ written = {} /\ n_drivers = 1

-----------------------------------------------------------------------------
(* Claims on the driver scores (SpecDriver)                                 *)

InRange(x, lo, hi) == ~x.nan /\ lo <= x.v /\ x.v <= hi

AllEqualDistances ==
    \A i, k \in 1..Len(drivers_df) : drivers_df[i].driven_km = drivers_df[k].driven_km

\* C6: every driver produced by either score normalizer has
\* driver_score_adjusted in [0, 100] and km_balance_scaled in [-10, 10],
\* for any distribution of the driven distances, all-equal included.
C6_ScoresInRange ==
    /\ \A i \in 1..Len(drivers_scored) :
         /\ InRange(drivers_scored[i].driver_score_adjusted, 0, Tick100)
         /\ InRange(drivers_scored[i].km_balance_scaled, -Tick10, Tick10)
    /\ \A i \in 1..Len(df_adjusted) :
         /\ InRange(df_adjusted[i].driver_score_adjusted, 0, Tick100)
         /\ InRange(df_adjusted[i].km_balance_scaled, -Tick10, Tick10)

\* C7: when the standard deviation of the driven distances is zero (equal
\* distances, a fleet of one driver included), both functions give
\* km_balance_scaled = 0 and driver_score_adjusted = the clipped final score.
C7_ZeroDeviationGivesZeroBalance ==
    AllEqualDistances =>
        /\ \A i \in 1..Len(drivers_scored) :
             /\ drivers_scored[i].km_balance_scaled = Num(0)
             /\ drivers_scored[i].driver_score_adjusted =
                    Round2(Clip(WeightedDriverScore(drivers_df[i]), 0, Tick100))
        /\ \A i \in 1..Len(df_adjusted) :
             /\ df_adjusted[i].km_balance_scaled = Num(0)
             /\ df_adjusted[i].driver_score_adjusted =
                    Round2(Clip(drivers_df[i].driver_score_base, 0, Tick100))

\* adjusted >= final below the fleet mean, <= final above it, and within
\* 0.15 * 10 = 1.5 points of it.  A NaN satisfies no comparison.
BalanceCapped(df, i, adjusted, final) ==
    /\ ~adjusted.nan /\ ~final.nan
    /\ Deviation(df, i) > 0 => adjusted.v >= final.v
    /\ Deviation(df, i) < 0 => adjusted.v <= final.v
    /\ adjusted.v - final.v <= (AlphaHundredths * Tick10) \div 100
    /\ final.v - adjusted.v <= (AlphaHundredths * Tick10) \div 100

\* C8: the balancing term rewards under-utilised drivers and is capped: for
\* every driver (sub-scores in [0, 100]) of either function, below the mean
\* distance adjusted >= final, above it adjusted <= final, and
\* |adjusted - final| <= 1.5.
C8_BalanceRewardsAndIsCapped ==
    /\ \A i \in 1..Len(drivers_scored) :
         BalanceCapped(drivers_df, i, drivers_scored[i].driver_score_adjusted,
                       drivers_scored[i].driver_score_final)
    /\ \A i \in 1..Len(df_adjusted) :
         BalanceCapped(drivers_df, i, df_adjusted[i].driver_score_adjusted,
                       df_adjusted[i].driver_score_base)

\* What holds of the driver scores: C6, C7 and C8 hold of
\* calculate_adjusted_scores for every fleet, and C6 and C8 hold of
\* calculate_driver_scores for every fleet whose distances are not all equal.
DriverScoresWhereDefined ==
    /\ \A i \in 1..Len(df_adjusted) :
         /\ InRange(df_adjusted[i].driver_score_adjusted, 0, Tick100)
         /\ InRange(df_adjusted[i].km_balance_scaled, -Tick10, Tick10)
         /\ BalanceCapped(drivers_df, i, df_adjusted[i].driver_score_adjusted,
                          df_adjusted[i].driver_score_base)
         /\ AllEqualDistances =>
              /\ df_adjusted[i].km_balance_scaled = Num(0)
              /\ df_adjusted[i].driver_score_adjusted =
                     Round2(Clip(drivers_df[i].driver_score_base, 0, Tick100))
    /\ ~AllEqualDistances =>
         \A i \in 1..Len(drivers_scored) :
            /\ InRange(drivers_scored[i].driver_score_adjusted, 0, Tick100)
            /\ InRange(drivers_scored[i].km_balance_scaled, -Tick10, Tick10)
            /\ BalanceCapped(drivers_df, i,
                             drivers_scored[i].driver_score_adjusted,
                             drivers_scored[i].driver_score_final)
    /\ AllEqualDistances =>
         \A i \in 1..Len(drivers_scored) :
            /\ drivers_scored[i].km_balance_scaled = NaN
            /\ drivers_scored[i].driver_score_adjusted = NaN

\* The cases the driver claims are about are reached: a balance clipped at
\* 10 and at -10, an adjusted score clipped at 0 and at 100.
ClippedBalanceReached ==
    /\ drivers_scored # <<>>
    /\ \E i \in 1..Len(drivers_scored) :
         drivers_scored[i].km_balance_scaled = Num(-Tick10)
    /\ \E i \in 1..Len(drivers_scored) :
         /\ Deviation(drivers_df, i) < 0
         /\ drivers_df[i].safety_score = 0
         /\ drivers_scored[i].driver_score_adjusted = Num(0)

-----------------------------------------------------------------------------
(* Claims on the route scores (SpecRoute)                                   *)

TierRank(t) ==
    CASE t = "Easy" -> 1 [] t = "Medium" -> 2 [] t = "Hard" -> 3
      [] t = "Expert" -> 4 [] OTHER -> 0

\* C9: route_score_final is in [0, 100] (as computed and as stored), and
\* the tier is monotonic non-decreasing in it: of two routes that both have
\* a tier, the one with the lower or equal score has the lower or equal
\* tier, in the order Easy < Medium < Hard < Expert.
C9_RouteScoreInRangeTierMonotonic ==
    /\ \A k \in 1..Len(routes_scored) :
         /\ InRange(RouteScoreFinal(routes_df[k]), 0, Tick100)
         /\ InRange(routes_scored[k].route_score_final, 0, Tick100)
    /\ \A a, b \in 1..Len(routes_scored) :
         (/\ routes_scored[a].difficulty_tier # "NaN"
          /\ routes_scored[b].difficulty_tier # "NaN"
          /\ RouteScoreFinal(routes_df[a]).v <= RouteScoreFinal(routes_df[b]).v)
         => TierRank(routes_scored[a].difficulty_tier)
                <= TierRank(routes_scored[b].difficulty_tier)

\* C9 witness: two scored routes of different tiers, one of them with
\* sub-scores above 100 whose score was clipped to 100.
C9_Witness ==
    /\ Len(routes_scored) = 2
    /\ routes_scored[1].difficulty_tier = "Medium"
    /\ routes_scored[2].difficulty_tier = "Expert"
    /\ routes_df[2].efficiency_score > 10000
    /\ routes_scored[2].route_score_final = Num(Tick100)

\* C10: the tier is given by the half-open intervals (0,40] Easy, (40,60]
\* Medium, (60,80] Hard, (80,100] Expert of the final score, upper bound
\* inclusive, and a final score of exactly 0 gets no tier.
C10_TierByHalfOpenIntervals ==
    \A k \in 1..Len(routes_scored) :
        LET s == RouteScoreFinal(routes_df[k]).v
            t == routes_scored[k].difficulty_tier
        IN  /\ s = 0 => t = "NaN"
            /\ (0 < s /\ s <= 40 * 10000) => t = "Easy"
            /\ (40 * 10000 < s /\ s <= 60 * 10000) => t = "Medium"
            /\ (60 * 10000 < s /\ s <= 80 * 10000) => t = "Hard"
            /\ (80 * 10000 < s /\ s <= 100 * 10000) => t = "Expert"

\* C10 witness: a route of final score exactly 40 scored Easy beside a
\* route of final score exactly 0 with no tier.
C10_Witness ==
    /\ Len(routes_scored) = 2
    /\ RouteScoreFinal(routes_df[1]) = Num(40 * 10000)
    /\ routes_scored[1].difficulty_tier = "Easy"
    /\ RouteScoreFinal(routes_df[2]) = Num(0)
    /\ routes_scored[2].difficulty_tier = "NaN"

-----------------------------------------------------------------------------
(* Claims on the matching run (SpecAssign, SpecAssemble)                    *)

EmptyInput == n_drivers = 0 \/ n_routes = 0
MatrixReturned == mpc \in {"solve", "solved", "returned", "assembled",
                           "saved", "done"}
Assembled == mpc \in {"assembled", "saved", "done"}

\* C12 as stated: with zero drivers or zero routes the matching run fails
\* with DegenerateInputError.
C12_RaisesDegenerateInputError ==
    (EmptyInput /\ mpc # "matrix") => raised = "DegenerateInputError"

\* C12, amended: with zero drivers or zero routes the matching run fails in
\* calculate_compatibility_matrix, its first step, with the ValueError of
\* the minimum of an empty matrix; it solves nothing, assembles nothing and
\* writes neither the assignment file nor the report.
C12_EmptyInputRaisesValueError ==
    (EmptyInput /\ mpc # "matrix") =>
        /\ mpc = "failed"
        /\ raised = "ValueError"
        /\ compatibility_matrix = <<>>
        /\ assignments = None
        /\ assignment_df = <<>>
        /\ written = {}
        /\ report = <<>>

C12_Witness ==
    /\ n_drivers = 2 /\ n_routes = 0
    /\ mpc = "failed" /\ raised = "ValueError"

\* C13: every cell of the matrix is (100 - |adjusted - final|)
\* + (10 if adjusted >= final else -20) - km_balance / 1000
\* + (0.20 * safety if danger > 70 else 0), unclipped.
C13_WeightFormula ==
    MatrixReturned =>
        /\ DOMAIN compatibility_matrix = Cells(n_drivers, n_routes)
        /\ \A i \in 0..(n_drivers - 1), j \in 0..(n_routes - 1) :
            LET adjusted == match_drivers_df[i + 1].driver_score_adjusted
                balance == match_drivers_df[i + 1].km_balance
                safety == match_drivers_df[i + 1].safety_score
                final == match_routes_df[j + 1].route_score_final
                danger == match_routes_df[j + 1].peligrosity_score
                gap == IF adjusted >= final THEN adjusted - final
                       ELSE final - adjusted
            IN  /\ balance % 1000 = 0 /\ safety % 5 = 0
                /\ compatibility_matrix[<<i, j>>] =
                      (100 * 10000 - gap)
                    + (IF adjusted >= final THEN 10 * 10000 ELSE -20 * 10000)
                    - (balance \div 1000)
                    + (IF danger > 70 * 10000 THEN safety \div 5 ELSE 0)

\* Equal scores with the bonus of 10 in a weight above 100, a danger score
\* of exactly 70, and a negative weight, in one matrix.
C13_Witness ==
    /\ MatrixReturned
    /\ \E c \in DOMAIN compatibility_matrix :
        /\ match_drivers_df[c[1] + 1].driver_score_adjusted
                = match_routes_df[c[2] + 1].route_score_final
        /\ compatibility_matrix[c] > 100 * 10000
    /\ \E c \in DOMAIN compatibility_matrix :
        /\ match_routes_df[c[2] + 1].peligrosity_score = 70 * 10000
        /\ match_drivers_df[c[1] + 1].safety_score > 0
    /\ \E c \in DOMAIN compatibility_matrix : compatibility_matrix[c] < 0

\* C14 as stated: of two drivers with equal adjusted score and equal safety
\* score, the one with fewer driven km (the larger km_balance) gets, for
\* every route, a weight at least that of the other.
C14_FewerKmNotWorse ==
    MatrixReturned =>
        \A a \in 1..n_drivers, b \in 1..n_drivers, j \in 0..(n_routes - 1) :
            (/\ match_drivers_df[a].driver_score_adjusted
                    = match_drivers_df[b].driver_score_adjusted
             /\ match_drivers_df[a].safety_score
                    = match_drivers_df[b].safety_score
             /\ match_drivers_df[a].km_balance
                    >= match_drivers_df[b].km_balance)
            => compatibility_matrix[<<a - 1, j>>]
                    >= compatibility_matrix[<<b - 1, j>>]

\* C15: the rows of create_assignment_dataframe are in descending order of
\* match_score and are a permutation of the solved pairs.
C15_SortedPermutation ==
    Assembled =>
        /\ \A k \in 1..(Len(assignment_df) - 1) :
            assignment_df[k].match_score >= assignment_df[k + 1].match_score
        /\ Len(assignment_df) = Len(assignments.list)
        /\ \E p \in Permutations(1..Len(assignment_df)) :
            \A k \in 1..Len(assignment_df) :
                /\ assignment_df[k].driver_idx
                        = assignments.list[p[k]].driver_idx
                /\ assignment_df[k].route_idx
                        = assignments.list[p[k]].route_idx
                /\ assignment_df[k].match_score
                        = assignments.list[p[k]].compatibility

\* Two pairs of different weights that the sort has put in the other order.
C15_Witness ==
    /\ Assembled
    /\ Len(assignment_df) = 2
    /\ assignment_df[1].match_score > assignment_df[2].match_score
    /\ assignment_df[1].route_idx = assignments.list[2].route_idx
    /\ assignment_df[2].route_idx = assignments.list[1].route_idx

\* C16: every assignment is in exactly one band by its gap (driver score
\* minus route score): over-qualified above 10, well-matched from -10 to 10
\* inclusive, under-qualified below -10; the report's three counts are the
\* sizes of the bands and sum to the number of assignments.
C16_BandsPartition ==
    mpc = "done" =>
        LET gap(k) == assignment_df[k].driver_score
                        - assignment_df[k].route_score
            rows == 1..Len(assignment_df)
            over == {k \in rows : gap(k) > 10 * 10000}
            well == {k \in rows : gap(k) >= -10 * 10000
                                    /\ gap(k) <= 10 * 10000}
            under == {k \in rows : gap(k) < -10 * 10000}
        IN  /\ report[1].over_qualified = Cardinality(over)
            /\ report[1].well_matched = Cardinality(well)
            /\ report[1].under_qualified = Cardinality(under)
            /\ report[1].over_qualified + report[1].well_matched
                + report[1].under_qualified = Len(assignment_df)
            /\ \A k \in rows : assignment_df[k].score_difference = gap(k)

\* A report over a gap of exactly 10, counted as well-matched, and a gap
\* above 10.
C16_Witness ==
    /\ mpc = "done"
    /\ \E k \in 1..Len(assignment_df) :
        assignment_df[k].score_difference = 10 * 10000
    /\ report[1].well_matched = 1
    /\ report[1].over_qualified = 1

\* A report over a gap of exactly -10, counted as well-matched, and a gap
\* below -10.
LowerBandBoundaryReached ==
    /\ mpc = "done"
    /\ \E k \in 1..Len(assignment_df) :
        assignment_df[k].score_difference = -10 * 10000
    /\ report[1].well_matched = 1
    /\ report[1].under_qualified = 1

\* C17: create_assignment_dataframe fails with IndexError, and builds no
\* frame, when a pair names a driver or a route position (from 0 on) that
\* has no row; otherwise every row is built from the records at the
\* positions its pair names.
C17_MissingJoinRaises ==
    mpc # "solved" =>
        IF \E k \in 1..Len(assignments.list) :
                \/ assignments.list[k].driver_idx >= n_drivers
                \/ assignments.list[k].route_idx >= n_routes
        THEN mpc = "failed" /\ raised = "IndexError" /\ assignment_df = <<>>
        ELSE /\ mpc = "assembled" /\ raised = "none"
             /\ Len(assignment_df) = Len(assignments.list)
             /\ \A k \in 1..Len(assignment_df) :
                 LET row == assignment_df[k]
                 IN  /\ row.driver_id
                            = match_drivers_df[row.driver_idx + 1].driver_id
                     /\ row.route_id
                            = match_routes_df[row.route_idx + 1].route_id
                     /\ \E m \in 1..Len(assignments.list) :
                         /\ assignments.list[m].driver_idx = row.driver_idx
                         /\ assignments.list[m].route_idx = row.route_idx

\* A pair with rows followed by a pair whose driver position has no row.
C17_Witness ==
    /\ mpc = "failed" /\ raised = "IndexError"
    /\ Len(assignments.list) = 2
    /\ assignments.list[1].driver_idx < n_drivers
    /\ assignments.list[1].route_idx < n_routes
    /\ assignments.list[2].driver_idx = n_drivers
    /\ assignments.list[2].route_idx < n_routes

\* C18: once calculate_compatibility_matrix has returned, no step changes a
\* cell of the matrix, and no step of the run changes the driver rows or
\* the route rows.
C18_MatrixAndInputsUnchanged ==
    [][/\ MatrixReturned => compatibility_matrix' = compatibility_matrix
       /\ match_drivers_df' = match_drivers_df
       /\ match_routes_df' = match_routes_df]_vars

\* The run has solved, assembled and reported over a matrix of six cells.
C18_Witness ==
    /\ mpc = "done"
    /\ Cardinality(DOMAIN compatibility_matrix) = 6
    /\ compatibility_matrix =
            CompatibilityMatrix(match_drivers_df, match_routes_df)

\* C19: a successful solve returns as many assignments as there are
\* routes; the report counts D - R unassigned drivers, and the drivers it
\* lists as unassigned are those of no assignment, D - R of them.
C19_UnassignedIsComplement ==
    /\ (mpc # "solve" /\ mpc # "matrix" /\ ~assignments.none) =>
            Len(assignments.list) = n_routes
    /\ mpc = "done" =>
        LET assigned == {assignments.list[k].driver_idx + 1 :
                            k \in 1..Len(assignments.list)}
        IN  /\ report[1].successful_assignments = n_routes
            /\ report[1].unassigned_drivers = n_drivers - n_routes
            /\ report[1].unassigned_ids =
                    {match_drivers_df[i].driver_id :
                        i \in (1..n_drivers) \ assigned}
            /\ report[1].total_unassigned
                    = Len(match_drivers_df) - Len(assignment_df)
            /\ report[1].total_unassigned = n_drivers - n_routes

\* Two routes and three drivers: one driver is unassigned, here the first.
C19_Witness ==
    /\ mpc = "done"
    /\ n_drivers = 3 /\ n_routes = 2
    /\ report[1].total_unassigned = 1
    /\ match_drivers_df[1].driver_id \in report[1].unassigned_ids

-----------------------------------------------------------------------------
(* Claims on the score normalizer's run (SpecScores)                        *)

\* A sub-score of a driver or of a route is outside [0, 100].
OutOfRangeInput ==
    \/ \E i \in 1..Len(drivers_df) :
        \E x \in {drivers_df[i].safety_score, drivers_df[i].efficiency_score,
                  drivers_df[i].compliance_score} : x < 0 \/ x > 100 * 100
    \/ \E j \in 1..Len(routes_df) :
        \E x \in {routes_df[j].efficiency_score,
                  routes_df[j].operational_complexity_score,
                  routes_df[j].peligrosity_score} : x < 0 \/ x > 100 * 100

\* A column that one of the two calculate functions reads is absent.
RequiredColumnAbsent == absent \cap (DriverColumns \cup RouteColumns) # {}

\* C11 as stated: an out-of-range sub-score or an absent required field
\* makes the normalizer fail with InvalidInputError, and nothing is scored.
C11_RaisesInvalidInputError ==
    ((OutOfRangeInput \/ RequiredColumnAbsent) /\ spc # "drivers") =>
        /\ spc = "failed" /\ score_raised = "InvalidInputError"
        /\ drivers_scored = <<>> /\ routes_scored = <<>>
        /\ score_written = {}

\* C11, amended: the normalizer checks no range, so rows with out-of-range
\* sub-scores are scored and written like any others, the route score
\* clipped into [0, 100]; when a column that calculate_driver_scores or
\* calculate_route_scores reads is absent, the run fails there with
\* KeyError and writes no file.
C11_OnlyAbsentColumnFails ==
    /\ RequiredColumnAbsent =>
        /\ spc \in {"drivers", "routes", "failed"}
        /\ spc = "failed" => score_raised = "KeyError"
        /\ spc # "failed" => score_raised = "none"
        /\ routes_scored = <<>>
        /\ score_written = {}
    /\ absent = {} =>
        /\ score_raised = "none"
        /\ spc \in {"drivers", "routes", "report", "done"}
        /\ spc = "done" =>
            /\ score_written = {"scored_drivers.csv", "scored_routes.csv",
                                "scoring_report.txt"}
            /\ Len(drivers_scored) = Len(drivers_df)
            /\ Len(routes_scored) = Len(routes_df)
            /\ \A j \in 1..Len(routes_scored) :
                /\ ~routes_scored[j].route_score_final.nan
                /\ routes_scored[j].route_score_final.v >= 0
                /\ routes_scored[j].route_score_final.v <= 100 * 10000

\* A finished run over a driver and a route with out-of-range sub-scores.
C11_Witness ==
    /\ spc = "done"
    /\ absent = {}
    /\ \E i \in 1..Len(drivers_df) : drivers_df[i].safety_score > 100 * 100
    /\ \E j \in 1..Len(routes_df) : routes_df[j].peligrosity_score > 100 * 100
    /\ "scored_routes.csv" \in score_written

\* A run that failed in calculate_route_scores, after the drivers were
\* scored, with nothing written.
AbsentRouteColumnReached ==
    /\ spc = "failed" /\ score_raised = "KeyError"
    /\ absent = {<<"routes", "peligrosity_score">>}
    /\ drivers_scored # <<>>
    /\ score_written = {}

-----------------------------------------------------------------------------
(* Claims on the pipeline (SpecPipeline)                                    *)

\* The scripts of the steps main() is to run, in the order of the docstring.
ExpectedScripts ==
    IF ppc = "idle" THEN <<>>
    ELSE (IF args.skip_extraction THEN <<>>
          ELSE <<"src/extract_scania_data.py">>)
         \o <<"src/process_features.py", "src/train_driver_clustering.py",
              "src/generate_driver_scores_json.py">>

Succeeded(k) == results[k].raises = "none" /\ results[k].returncode = 0

CompletedLogged ==
    \E k \in 1..Len(pipeline_log) :
        pipeline_log[k].text = "PIPELINE COMPLETED SUCCESSFULLY!"

\* C20: the steps start in the order extract, process, train, generate; a
\* step starts only after every earlier one succeeded; a failed step is
\* the last one started and the process ends with status 1; the completed
\* message is logged only when every step that was to run has succeeded.
C20_StepsInOrder ==
    /\ Len(commands) <= Len(ExpectedScripts)
    /\ Len(results) = Len(commands)
    /\ \A k \in 1..Len(commands) :
        /\ commands[k][1] = "python"
        /\ commands[k][2] = ExpectedScripts[k]
    /\ \A k \in 1..(Len(commands) - 1) : Succeeded(k)
    /\ \A k \in 1..Len(commands) :
        ~Succeeded(k) => ppc = "exited" /\ exit_status = "1"
    /\ CompletedLogged =>
        /\ Len(commands) = Len(ExpectedScripts)
        /\ \A k \in 1..Len(commands) : Succeeded(k)
    /\ exit_status = "0" => CompletedLogged

\* A full run whose third step, the clustering, returned 2: two steps
\* completed, the fourth not started, status 1.
C20_Witness ==
    /\ ppc = "exited"
    /\ ~args.skip_extraction
    /\ Len(commands) = 3
    /\ results[3].returncode = 2
    /\ steps_completed = 2
    /\ exit_status = "1"
    /\ ~CompletedLogged

Started == ppc \notin {"idle", "start"}

\* The calls of run_command that returned True so far.
SuccessfulSteps == {k \in 1..Len(results) : Succeeded(k)}

\* C21: with --skip-extraction the extraction command is never run and
\* total_steps is 3, otherwise 4; steps_completed is the number of steps
\* that succeeded so far (one more per successful step), is at most
\* total_steps, and equals total_steps when completion is reported.
C21_StepsCompletedCounts ==
    Started =>
        /\ total_steps = (IF args.skip_extraction THEN 3 ELSE 4)
        /\ args.skip_extraction =>
            \A k \in 1..Len(commands) :
                commands[k][2] # "src/extract_scania_data.py"
        /\ steps_completed = Cardinality(SuccessfulSteps)
        /\ steps_completed <= total_steps
        /\ CompletedLogged => steps_completed = total_steps

\* Each step of main() leaves steps_completed alone or adds one to it, and
\* adds one exactly when the command it ran returned 0.
C21_OnePerSuccessfulStep ==
    [][/\ steps_completed' \in {steps_completed, steps_completed + 1}
       /\ (steps_completed' = steps_completed + 1) <=>
            (/\ Len(results') = Len(results) + 1
             /\ results'[Len(results')].raises = "none"
             /\ results'[Len(results')].returncode = 0)]_vars

\* A run with --skip-extraction that reported completion after 3 steps.
C21_Witness ==
    /\ ppc = "exited"
    /\ args.skip_extraction
    /\ CompletedLogged
    /\ steps_completed = 3
    /\ total_steps = 3
    /\ Len(commands) = 3

\* The calls of run_command that returned True or False to main(): main()
\* logs the progress after True and the abort after False.
ReturnedToMain ==
    {k \in 1..Len(pipeline_log) :
        pipeline_log[k].text # "PIPELINE COMPLETED SUCCESSFULLY!"}

\* C22 as stated: whatever the outcome of launching the command, exit code
\* 0, another exit code or the executable failing to start, run_command
\* returns a boolean to the pipeline and propagates no exception.
C22_AlwaysReturnsBoolean ==
    Cardinality(ReturnedToMain) = Len(commands)

\* ======================================================================
\* process_features.py: calculate_efficiency_score
\* ======================================================================

\* The averaged features of a driver, in hundredths. fuel_per_100km is
\* float(trip.get('AverageFuelConsumption', 0)): 0 for a missing field.
DriverData ==
    [fuel_per_100km_avg : {0, 1500, 2000, 2333, 2500, 4000, 5000},
     idle_time_percentage_avg : {0, 1001, 2000, 10000},
     cruise_control_usage_pct_avg : {0, 5000, 10000},
     anticipation_score_avg : {0, 5050, 10000}]

Max0(x) == IF x < 0 THEN 0 ELSE x

\* max(0, 100 - ((fuel_per_100km_avg - 20) * 5)), in hundredths.
FuelNorm(d) ==
    Max0(10000 - ((d.fuel_per_100km_avg - 2000) * 5))

\* max(0, 100 - (idle_time_percentage_avg * 5)), in hundredths.
IdleNorm(d) ==
    Max0(10000 - (d.idle_time_percentage_avg * 5))

\* The weighted composite rounded to 2 decimals, in hundredths. The
\* weights are hundredths too, so the sum is in 1/10000.
EfficiencyScore(d) ==
    RoundDiv(35 * FuelNorm(d) + 25 * IdleNorm(d)
             + 20 * d.cruise_control_usage_pct_avg
             + 20 * d.anticipation_score_avg, 100)

InitEfficiency ==
    /\ driver_data \in DriverData
    /\ efficiency_score = <<>>
    /\ IdleExtract
    /\ IdleMatch /\ IdleDriver /\ IdleRoute /\ IdleScore /\ IdlePipe

CalculateEfficiencyScore ==
    /\ efficiency_score = <<>>
    /\ efficiency_score' = <<EfficiencyScore(driver_data)>>
    /\ UNCHANGED <<driver_data, extractVars>>
    /\ UNCHANGED <<matchVars, driverVars, routeVars, scoreVars, pipeVars>>

NextEfficiency == CalculateEfficiencyScore

SpecEfficiency == InitEfficiency /\ [][NextEfficiency]_vars

\* ----------------------------------------------------------------------
\* C23
\* ----------------------------------------------------------------------

\* C23 as stated: for averaged inputs in their valid ranges (fuel >= 0,
\* the three percentages in [0,100]), fuel below 20 L/100km and the
\* default 0 of a missing field included, calculate_efficiency_score
\* returns a value in [0,100].
C23_ScoreWithinRange ==
    efficiency_score # <<>> =>
        (0 <= efficiency_score[1] /\ efficiency_score[1] <= 10000)

\* Whenever fuel_per_100km_avg is at least 20 the returned score is in
\* [0,100]: only the uncapped fuel term takes it out of the range.
C23_InRangeFromTwentyLitres ==
    (efficiency_score # <<>> /\ driver_data.fuel_per_100km_avg >= 2000) =>
        (0 <= efficiency_score[1] /\ efficiency_score[1] <= 10000)

\* The driver with no fuel figure (default 0), no idling and full cruise
\* control and anticipation scores: the score is 135.
C23_ScoreAboveHundred ==
    /\ efficiency_score = <<13500>>
    /\ driver_data.fuel_per_100km_avg = 0
    /\ driver_data.idle_time_percentage_avg = 0

\* ======================================================================
\* extract_scania_data.py: datetime.strptime(date_str, '%Y%m%d%H%M')
\* ======================================================================

\* A date string is the sequence of its characters: 0..9 are the digits,
\* 10 is any other character ('-').
IsDigit(c) == c \in 0..9

DaysInMonth(Y, m) ==
    IF m = 2
    THEN (IF (Y % 4 = 0 /\ Y % 100 # 0) \/ Y % 400 = 0 THEN 29 ELSE 28)
    ELSE IF m \in {4, 6, 9, 11} THEN 30 ELSE 31

\* The character at position i, 10 past the end of the string.
CharAt(s, i) == IF i \in 1..Len(s) THEN s[i] ELSE 10

\* The directives' regular expressions, tried on w characters from i.
\* %m is 1[0-2]|0[1-9]|[1-9], %d is 3[0-1]|[1-2]\d|0[1-9]|[1-9],
\* %H is 2[0-3]|[0-1]\d|\d and %M is [0-5]\d|\d: each one tries its
\* two-character alternatives before the one-character one.
MatchMonth(s, i, w) ==
    LET a == CharAt(s, i)
        b == CharAt(s, i + 1)
    IN  IF w = 2
        THEN (a = 1 /\ b \in 0..2) \/ (a = 0 /\ b \in 1..9)
        ELSE a \in 1..9

MatchDay(s, i, w) ==
    LET a == CharAt(s, i)
        b == CharAt(s, i + 1)
    IN  IF w = 2
        THEN \/ (a = 3 /\ b \in 0..1)
             \/ (a \in 1..2 /\ IsDigit(b))
             \/ (a = 0 /\ b \in 1..9)
        ELSE a \in 1..9

MatchHour(s, i, w) ==
    LET a == CharAt(s, i)
        b == CharAt(s, i + 1)
    IN  IF w = 2
        THEN (a = 2 /\ b \in 0..3) \/ (a \in 0..1 /\ IsDigit(b))
        ELSE IsDigit(a)

MatchMinute(s, i, w) ==
    LET a == CharAt(s, i)
        b == CharAt(s, i + 1)
    IN  IF w = 2 THEN a \in 0..5 /\ IsDigit(b) ELSE IsDigit(a)

\* The widths of %m, %d, %H and %M in the order in which the
\* backtracking matcher tries them: 2 before 1, the leftmost directive
\* changing last.
WidthOrder ==
    [k \in 1..16 |->
        <<2 - (((k - 1) \div 8) % 2), 2 - (((k - 1) \div 4) % 2),
          2 - (((k - 1) \div 2) % 2), 2 - ((k - 1) % 2)>>]

\* format_regex.match(data_string) with these widths: \d\d\d\d for %Y,
\* then the four directives; the match is not anchored at the end.
MatchesWith(s, w) ==
    /\ \A i \in 1..4 : IsDigit(CharAt(s, i))
    /\ MatchMonth(s, 5, w[1])
    /\ MatchDay(s, 5 + w[1], w[2])
    /\ MatchHour(s, 5 + w[1] + w[2], w[3])
    /\ MatchMinute(s, 5 + w[1] + w[2] + w[3], w[4])

\* The number read from w characters at i.
Field(s, i, w) ==
    IF w = 2 THEN 10 * CharAt(s, i) + CharAt(s, i + 1) ELSE CharAt(s, i)

NoDate == [ok |-> FALSE, Y |-> 0, m |-> 0, d |-> 0, H |-> 0, M |-> 0]

\* datetime.strptime(s, '%Y%m%d%H%M'): ok = FALSE stands for ValueError
\* (no match, unconverted data remains, or a day the month does not
\* have, or the year 0).
Strptime(s) ==
    IF ~\E k \in 1..16 : MatchesWith(s, WidthOrder[k]) THEN NoDate
    ELSE
      LET k == CHOOSE k \in 1..16 :
                   /\ MatchesWith(s, WidthOrder[k])
                   /\ \A h \in 1..(k - 1) : ~MatchesWith(s, WidthOrder[h])
          w == WidthOrder[k]
          Y == 1000 * s[1] + 100 * s[2] + 10 * s[3] + s[4]
          m == Field(s, 5, w[1])
          d == Field(s, 5 + w[1], w[2])
      IN  IF 4 + w[1] + w[2] + w[3] + w[4] # Len(s) THEN NoDate
          ELSE IF Y = 0 \/ d > DaysInMonth(Y, m) THEN NoDate
          ELSE [ok |-> TRUE, Y |-> Y, m |-> m, d |-> d,
                H |-> Field(s, 5 + w[1] + w[2], w[3]),
                M |-> Field(s, 5 + w[1] + w[2] + w[3], w[4])]

\* validate_date_format: strptime raised no ValueError.
ValidateDateFormat(date_str) == Strptime(date_str).ok

\* dt.strftime('%Y%m%d%H%M') for a year of four digits.
Strftime(dt) ==
    <<dt.Y \div 1000, (dt.Y \div 100) % 10, (dt.Y \div 10) % 10, dt.Y % 10,
      dt.m \div 10, dt.m % 10, dt.d \div 10, dt.d % 10,
      dt.H \div 10, dt.H % 10, dt.M \div 10, dt.M % 10>>

\* dt - timedelta(days=n), one day at a time.
RECURSIVE MinusDays(_, _)
MinusDays(dt, n) ==
    IF n = 0 THEN dt
    ELSE IF dt.d > 1 THEN MinusDays([dt EXCEPT !.d = dt.d - 1], n - 1)
    ELSE IF dt.m > 1
    THEN MinusDays([dt EXCEPT !.m = dt.m - 1,
                              !.d = DaysInMonth(dt.Y, dt.m - 1)], n - 1)
    ELSE MinusDays([dt EXCEPT !.Y = dt.Y - 1, !.m = 12, !.d = 31], n - 1)

\* ======================================================================
\* extract_scania_data.py: main() and fetch_driver_evaluation_report
\* ======================================================================

\* --start-date: not given (or empty), "202510210000", "2025102100",
\* "20251021", "2025-10-21", "202502300000".
\* --end-date: not given (or empty), "202510310000", "20251111",
\* "202513010000".
ExtractArguments ==
    [start_date : {<<>>,
                   <<2, 0, 2, 5, 1, 0, 2, 1, 0, 0, 0, 0>>,
                   <<2, 0, 2, 5, 1, 0, 2, 1, 0, 0>>,
                   <<2, 0, 2, 5, 1, 0, 2, 1>>,
                   <<2, 0, 2, 5, 10, 1, 0, 10, 2, 1>>,
                   <<2, 0, 2, 5, 0, 2, 3, 0, 0, 0, 0, 0>>},
     end_date : {<<>>,
                 <<2, 0, 2, 5, 1, 0, 3, 1, 0, 0, 0, 0>>,
                 <<2, 0, 2, 5, 1, 1, 1, 1>>,
                 <<2, 0, 2, 5, 1, 3, 0, 1, 0, 0, 0, 0>>}]

\* datetime.now().
Nows ==
    {[ok |-> TRUE, Y |-> 2026, m |-> 1, d |-> 15, H |-> 9, M |-> 30],
     [ok |-> TRUE, Y |-> 2024, m |-> 3, d |-> 1, H |-> 12, M |-> 0]}

\* What the try block of fetch_driver_evaluation_report ends with: "none"
\* is the return of the data; RetryError (the retries on 5xx exhausted)
\* has no except clause of its own.
RequestOutcomes ==
    {"none", "Timeout", "ConnectionError", "HTTPError", "JSONDecodeError",
     "RetryError"}

\* What writing a file ends with: written; open() failed; the dump failed
\* after open() created the file; the file was written and stat() failed.
WriteOutcomes == {"ok", "open_fails", "dump_fails", "stat_fails"}

\* An exit status that ignores the failure.
ExitsZero(exc) == "0"

\* The exit status of the script: sys.exit(1) in main's except clause
\* and the interpreter's status 1 for an uncaught exception, 0 when
\* main() returns.
SysExit(exc) == IF exc = "none" THEN "0" ELSE "1"

\* A session that is closed only when the request succeeded.
ClosesOnSuccessOnly(exc) == IF exc = "none" THEN "closed" ELSE "open"

\* finally: session.close(), whatever the try block ended with.
SessionAfterFinally(exc) == "closed"

\* `if not token`.
TokenSet(token) == token \notin {"None", ""}

InitExtract ==
    /\ xargs \in ExtractArguments
    /\ env_token \in {"None", "", "tok"}   \* unset, empty, set
    /\ xpc = "start"
    /\ token_read = FALSE /\ session = "none" /\ request_sent = FALSE
    /\ pending = "none" /\ xwritten = <<>> /\ xraised = "none"
    /\ xexit = "running"
    /\ IdleEff
    /\ IdleMatch /\ IdleDriver /\ IdleRoute /\ IdleScore /\ IdlePipe

\* The exception exc ends the run: main's `except Exception` calls
\* sys.exit(1), and an exception raised outside main's try block ends the
\* interpreter. xpc stays at the step that raised.
Fail(exc) ==
    /\ xraised' = exc
    /\ xexit' = SysExit(exc)
    /\ UNCHANGED xpc

\* main, 319-327: the default dates.
DefaultDates ==
    /\ xpc = "start" /\ xexit = "running"
    /\ \E now \in Nows :
         LET end == IF xargs.end_date = <<>> THEN Strftime(now)
                    ELSE xargs.end_date
         IN  IF xargs.start_date # <<>>
             THEN /\ xargs' = [xargs EXCEPT !.end_date = end]
                  /\ xpc' = "validate"
                  /\ UNCHANGED <<xraised, xexit>>
             ELSE IF Strptime(end).ok
             THEN /\ xargs' = [start_date |->
                                  Strftime(MinusDays(Strptime(end), 30)),
                               end_date |-> end]
                  /\ xpc' = "validate"
                  /\ UNCHANGED <<xraised, xexit>>
             ELSE /\ xargs' = [xargs EXCEPT !.end_date = end]
                  /\ Fail("ValueError")
    /\ UNCHANGED <<env_token, token_read, session, request_sent, pending,
                   xwritten, effVars>>
    /\ UNCHANGED <<matchVars, driverVars, routeVars, scoreVars, pipeVars>>

\* fetch_driver_evaluation_report, 143-147.
ValidateDates ==
    /\ xpc = "validate" /\ xexit = "running"
    /\ IF /\ ValidateDateFormat(xargs.start_date)
          /\ ValidateDateFormat(xargs.end_date)
       THEN xpc' = "token" /\ UNCHANGED <<xraised, xexit>>
       ELSE Fail("ValueError")
    /\ UNCHANGED <<xargs, env_token, token_read, session, request_sent,
                   pending, xwritten, effVars>>
    /\ UNCHANGED <<matchVars, driverVars, routeVars, scoreVars, pipeVars>>

\* fetch_driver_evaluation_report, 150, and get_api_token.
GetApiToken ==
    /\ xpc = "token" /\ xexit = "running"
    /\ token_read' = TRUE
    /\ IF TokenSet(env_token)
       THEN xpc' = "session" /\ UNCHANGED <<xraised, xexit>>
       ELSE Fail("EnvironmentError")
    /\ UNCHANGED <<xargs, env_token, session, request_sent, pending,
                   xwritten, effVars>>
    /\ UNCHANGED <<matchVars, driverVars, routeVars, scoreVars, pipeVars>>

\* fetch_driver_evaluation_report, 174.
CreateSession ==
    /\ xpc = "session" /\ xexit = "running"
    /\ session' = "open"
    /\ xpc' = "request"
    /\ UNCHANGED <<xargs, env_token, token_read, request_sent, pending,
                   xwritten, xraised, xexit, effVars>>
    /\ UNCHANGED <<matchVars, driverVars, routeVars, scoreVars, pipeVars>>

\* fetch_driver_evaluation_report, 176-218: the try block and its except
\* clauses, which log and re-raise.
SessionGet ==
    /\ xpc = "request" /\ xexit = "running"
    /\ request_sent' = TRUE
    /\ \E exc \in RequestOutcomes : pending' = exc
    /\ xpc' = "finally"
    /\ UNCHANGED <<xargs, env_token, token_read, session, xwritten,
                   xraised, xexit, effVars>>
    /\ UNCHANGED <<matchVars, driverVars, routeVars, scoreVars, pipeVars>>

\* fetch_driver_evaluation_report, 219-220, then the return to main() or
\* the exception reaching main's except clause.
CloseSession ==
    /\ xpc = "finally" /\ xexit = "running"
    /\ session' = SessionAfterFinally(pending)
    /\ IF pending = "none"
       THEN xpc' = "metadata" /\ UNCHANGED <<xraised, xexit>>
       ELSE Fail(pending)
    /\ UNCHANGED <<xargs, env_token, token_read, request_sent, pending,
                   xwritten, effVars>>
    /\ UNCHANGED <<matchVars, driverVars, routeVars, scoreVars, pipeVars>>

\* main, 346-349: data.get raises AttributeError when the JSON document
\* is not an object.
GenerateMetadata ==
    /\ xpc = "metadata" /\ xexit = "running"
    /\ \E is_dict \in BOOLEAN :
         IF is_dict
         THEN xpc' = "save_raw" /\ UNCHANGED <<xraised, xexit>>
         ELSE Fail("AttributeError")
    /\ UNCHANGED <<xargs, env_token, token_read, session, request_sent,
                   pending, xwritten, effVars>>
    /\ UNCHANGED <<matchVars, driverVars, routeVars, scoreVars, pipeVars>>

\* The files after writing `file` with the outcome out.
Written(files, file, out) ==
    IF out = "open_fails" THEN files
    ELSE Append(files, [file |-> file, complete |-> out # "dump_fails"])

\* main, 352-353, and save_raw_data.
SaveRawData ==
    /\ xpc = "save_raw" /\ xexit = "running"
    /\ \E out \in WriteOutcomes :
         /\ xwritten' = Written(xwritten, "raw_driver_trips.json", out)
         /\ IF out = "ok"
            THEN xpc' = "save_metadata" /\ UNCHANGED <<xraised, xexit>>
            ELSE Fail("OSError")
    /\ UNCHANGED <<xargs, env_token, token_read, session, request_sent,
                   pending, effVars>>
    /\ UNCHANGED <<matchVars, driverVars, routeVars, scoreVars, pipeVars>>

\* main, 356-370: the metadata file, then main() returns.
SaveMetadata ==
    /\ xpc = "save_metadata" /\ xexit = "running"
    /\ \E out \in WriteOutcomes \ {"stat_fails"} :
         /\ xwritten' = Written(xwritten, "extraction_metadata.json", out)
         /\ IF out = "ok"
            THEN /\ xpc' = "done"
                 /\ xexit' = SysExit("none")
                 /\ UNCHANGED xraised
            ELSE Fail("OSError")
    /\ UNCHANGED <<xargs, env_token, token_read, session, request_sent,
                   pending, effVars>>
    /\ UNCHANGED <<matchVars, driverVars, routeVars, scoreVars, pipeVars>>

NextExtract ==
    \/ DefaultDates
    \/ ValidateDates
    \/ GetApiToken
    \/ CreateSession
    \/ SessionGet
    \/ CloseSession
    \/ GenerateMetadata
    \/ SaveRawData
    \/ SaveMetadata

SpecExtract == InitExtract /\ [][NextExtract]_vars

\* ----------------------------------------------------------------------
\* C24
\* ----------------------------------------------------------------------

\* A string in the YYYYMMDDHHMM format: twelve digits that name a
\* minute of a day of the calendar.
InFormat(s) ==
    /\ Len(s) = 12
    /\ \A i \in 1..12 : IsDigit(s[i])
    /\ 1000 * s[1] + 100 * s[2] + 10 * s[3] + s[4] >= 1
    /\ Field(s, 5, 2) \in 1..12
    /\ Field(s, 7, 2) \in
         1..DaysInMonth(1000 * s[1] + 100 * s[2] + 10 * s[3] + s[4],
                        Field(s, 5, 2))
    /\ Field(s, 9, 2) \in 0..23
    /\ Field(s, 11, 2) \in 0..59

\* fetch_driver_evaluation_report has passed its validation of the dates.
PastValidation == xpc \notin {"idle", "start", "validate"}

\* C24 as stated: fetch_driver_evaluation_report raises ValueError when
\* start_date or end_date is not in the YYYYMMDDHHMM format, before the
\* token is read and before any request; a request is sent only if both
\* dates are valid and a token is set.
C24_InvalidDateRaisesFirst ==
    LET valid == InFormat(xargs.start_date) /\ InFormat(xargs.end_date)
    IN  /\ PastValidation => valid
        /\ token_read => valid
        /\ request_sent => (valid /\ TokenSet(env_token))
        /\ (xpc = "validate" /\ xexit # "running") =>
             (xraised = "ValueError" /\ ~token_read /\ ~request_sent)

\* What the code does guarantee: a date that strptime rejects raises
\* ValueError before the token is read and before any request, and a
\* request is sent only with two dates that strptime accepts and a token.
C24_RejectedDateRaisesFirst ==
    LET accepted == /\ ValidateDateFormat(xargs.start_date)
                    /\ ValidateDateFormat(xargs.end_date)
    IN  /\ PastValidation => accepted
        /\ token_read => accepted
        /\ request_sent => (accepted /\ TokenSet(env_token))
        /\ (xpc = "validate" /\ xexit # "running") =>
             (/\ ~accepted
              /\ xraised = "ValueError" /\ ~token_read /\ ~request_sent)

\* A request was sent with the start date "2025102100".
C24_ShortDateSent ==
    /\ request_sent
    /\ xargs.start_date = <<2, 0, 2, 5, 1, 0, 2, 1, 0, 0>>

\* ----------------------------------------------------------------------
\* C25
\* ----------------------------------------------------------------------

\* fetch_driver_evaluation_report returned or raised after it had
\* created the session.
LeftFetchAfterSession ==
    \/ xpc \in {"metadata", "save_raw", "save_metadata", "done"}
    \/ (xpc = "finally" /\ xexit # "running")

\* C25: once the session has been created it is closed on every exit
\* path of fetch_driver_evaluation_report: the session is open only
\* while the function is in its try block or about to run its finally
\* clause, and it is closed whenever the function has returned or raised.
C25_SessionClosedOnEveryExit ==
    /\ session = "open" =>
         (xpc \in {"request", "finally"} /\ xexit = "running")
    /\ LeftFetchAfterSession => session = "closed"
    /\ xexit # "running" => session # "open"

\* The response was not JSON: the exception reached main() and the
\* session is closed.
C25_Witness ==
    /\ xexit = "1"
    /\ xraised = "JSONDecodeError"
    /\ request_sent
    /\ session = "closed"

\* ----------------------------------------------------------------------
\* C26
\* ----------------------------------------------------------------------

\* The run ended before fetch_driver_evaluation_report returned data.
FetchFailed ==
    xexit = "1" /\ xpc \in {"start", "validate", "token", "finally"}

\* C26: a failing step (invalid date, missing token, request error, write
\* error) ends the script with exit status 1; when the fetch fails no
\* file is written; the metadata file is written only after the raw data
\* file was saved completely.
C26_FailureExitsOne ==
    /\ xraised # "none" => xexit = "1"
    /\ xexit = "0" => (xraised = "none" /\ xpc = "done")
    /\ FetchFailed => xwritten = <<>>
    /\ \A k \in 1..Len(xwritten) :
         xwritten[k].file = "extraction_metadata.json" =>
            \E h \in 1..(k - 1) :
               /\ xwritten[h].file = "raw_driver_trips.json"
               /\ xwritten[h].complete

\* The metadata file could not be written after the raw data file was
\* saved: exit status 1.
C26_Witness ==
    /\ xexit = "1"
    /\ xraised = "OSError"
    /\ xpc = "save_metadata"
    /\ Len(xwritten) = 2
    /\ xwritten[1].complete
    /\ ~xwritten[2].complete

\* The request timed out: exit status 1 and no file.
C26_FetchFailedReached ==
    FetchFailed /\ xraised = "Timeout" /\ xwritten = <<>>

\* ----------------------------------------------------------------------
\* C27
\* ----------------------------------------------------------------------

\* C27 as stated: for every scored route the stored difficulty_tier is
\* the tier of the stored, 2-decimal rounded, route_score_final, also for
\* scores that round onto 40.00, 60.00 or 80.00 or to 0.00.
C27_StoredTierIsTierOfStoredScore ==
    \A k \in 1..Len(routes_scored) :
        routes_scored[k].difficulty_tier =
            Cut(routes_scored[k].route_score_final)

\* What the code stores: the tier of the clipped score before rounding.
C27_StoredTierIsTierOfComputedScore ==
    \A k \in 1..Len(routes_scored) :
        routes_scored[k].difficulty_tier = Cut(RouteScoreFinal(routes_df[k]))

\* The route with sub-scores 40.01, 40, 40: the score 40.004 is stored as
\* 40.00 with the tier Medium.
C27_RoundsOntoBoundary ==
    \E k \in 1..Len(routes_scored) :
        /\ routes_df[k].efficiency_score = 4001
        /\ routes_scored[k].route_score_final = Num(40 * 10000)
        /\ routes_scored[k].difficulty_tier = "Medium"

\* ----------------------------------------------------------------------
\* C28
\* ----------------------------------------------------------------------

\* The sum of the four per-tier counts.
TierTotal(counts) ==
    counts["Easy"] + counts["Medium"] + counts["Hard"] + counts["Expert"]

\* C28 as stated: the distribution by difficulty tier is complete: in the
\* scoring report the counts of the four tiers sum to the number of
\* routes, and in the matching report the per-tier counts sum to the
\* number of assignments, a route whose score is exactly 0 included.
C28_TierCountsComplete ==
    /\ score_report # <<>> =>
         TierTotal(score_report[1].difficulty) = score_report[1].total_routes
    /\ report # <<>> =>
         TierTotal(report[1].by_difficulty) = report[1].successful_assignments

\* The routes the scoring report leaves out are those whose clipped score
\* is exactly 0.
C28_OnlyZeroScoreUncounted ==
    score_report # <<>> =>
        score_report[1].total_routes - TierTotal(score_report[1].difficulty)
            = Cardinality({k \in 1..Len(routes_scored) :
                              RouteScoreFinal(routes_df[k]) = Num(0)})

\* A scoring report of two routes of which one has the score 0: the tier
\* counts sum to 1.
C28_ScoringReportIncomplete ==
    /\ score_report # <<>>
    /\ score_report[1].total_routes = 2
    /\ TierTotal(score_report[1].difficulty) = 1

\* A matching report whose per-tier counts sum to less than the number of
\* assignments.
C28_MatchingReportIncomplete ==
    /\ report # <<>>
    /\ TierTotal(report[1].by_difficulty)
         < report[1].successful_assignments

====
